---------------------------- MODULE Spec2Model ----------------------------
(***************************************************************************)
(* A model of logfilter_v2.py: file discovery by serial number / vehicle   *)
(* name and date window, keyword filtering of LOG files, expansion of ZIP  *)
(* archives into a scratch directory, and the two run entry points         *)
(* process_selected_files and run_summary_range.                           *)
(*                                                                         *)
(* Text is modelled by TLA+ strings, which TLC can measure (Len), slice    *)
(* (SubSeq, Head, Tail) and concatenate (\o), so that upper-casing,        *)
(* trimming, suffix tests and the regular expressions of the program are   *)
(* computed character by character as the program computes them.  Only     *)
(* ASCII text is modelled.  A path is a sequence of segments; a date is    *)
(* the integer yyyymmdd, whose order is the order of dates.                *)
(***************************************************************************)
EXTENDS Integers, Sequences, FiniteSets, TLC

VARIABLES
    tree,       \* the nodes (files, directories) below the base directory
    req,        \* the request: identities, date range, archive flag, ...
    found,      \* what find_files_by_serial_and_date did and returned
    scan,       \* filter_log_file: the file handed in and what came back
    content,    \* what is in the log files and archives of the tree
    run,        \* the locals of the running (or last) call of
                \* process_selected_files or run_summary_range
    scratch,    \* the scratch directory of tempfile.mkdtemp() and its files
    out,        \* the output files {prefix}.txt, {prefix}.html and
                \* {prefix}_summary.html
    nruns       \* calls started so far

vars == <<tree, req, found, scan, content, run, scratch, out, nruns>>
runVars == <<content, run, scratch, out, nruns>>

\* Python's None where a date is optional: an optional date is the empty
\* sequence or the one-element sequence <<d>>.
NoDate == <<>>

(***************************************************************************)
(*                               Text                                      *)
(***************************************************************************)
Ch(s, i) == SubSeq(s, i, i)

LowerChars == "abcdefghijklmnopqrstuvwxyz"
UpperChars == "ABCDEFGHIJKLMNOPQRSTUVWXYZ"
DigitChars == "0123456789"

LowerSet == {Ch(LowerChars, i) : i \in 1..Len(LowerChars)}
UpperSet == {Ch(UpperChars, i) : i \in 1..Len(UpperChars)}
DigitSet == {Ch(DigitChars, i) : i \in 1..Len(DigitChars)}
Whitespace == {" ", "\t", "\n", "\r"}

UpperMap == [c \in LowerSet |->
               Ch(UpperChars, CHOOSE i \in 1..Len(LowerChars) : Ch(LowerChars, i) = c)]
LowerMap == [c \in UpperSet |->
               Ch(LowerChars, CHOOSE i \in 1..Len(UpperChars) : Ch(UpperChars, i) = c)]
DigitVal == [c \in DigitSet |->
               (CHOOSE i \in 1..Len(DigitChars) : Ch(DigitChars, i) = c) - 1]

UpperCh(c) == IF c \in LowerSet THEN UpperMap[c] ELSE c
LowerCh(c) == IF c \in UpperSet THEN LowerMap[c] ELSE c

\* "".join(q[a:b]): the strings q[a], ..., q[b] one after the other
RECURSIVE Join(_, _, _)
Join(q, a, b) ==
    IF a > b THEN ""
    ELSE IF a = b THEN q[a]
    ELSE Join(q, a, (a + b) \div 2) \o Join(q, (a + b) \div 2 + 1, b)

\* str.upper()
Upper(s) == Join([i \in 1..Len(s) |-> UpperCh(Ch(s, i))], 1, Len(s))

\* str.lower()
Lower(s) == Join([i \in 1..Len(s) |-> LowerCh(Ch(s, i))], 1, Len(s))

Min(S) == CHOOSE x \in S : \A y \in S : x <= y
Max(S) == CHOOSE x \in S : \A y \in S : y <= x

\* str.lstrip()
LStrip(s) ==
    LET kept == {i \in 1..Len(s) : Ch(s, i) \notin Whitespace}
    IN IF kept = {} THEN "" ELSE SubSeq(s, Min(kept), Len(s))

\* str.rstrip()
RStrip(s) ==
    LET kept == {i \in 1..Len(s) : Ch(s, i) \notin Whitespace}
    IN IF kept = {} THEN "" ELSE SubSeq(s, 1, Max(kept))

\* str.strip()
Strip(s) == RStrip(LStrip(s))

\* str.endswith(suffix)
EndsWith(s, suffix) ==
    /\ Len(s) >= Len(suffix)
    /\ SubSeq(s, Len(s) - Len(suffix) + 1, Len(s)) = suffix

\* str.startswith(prefix)
StartsWith(s, prefix) ==
    /\ Len(s) >= Len(prefix)
    /\ SubSeq(s, 1, Len(prefix)) = prefix

AllDigits(s) == \A i \in 1..Len(s) : Ch(s, i) \in DigitSet

\* int() of a string of decimal digits
RECURSIVE ToNat(_)
ToNat(s) ==
    IF s = "" THEN 0
    ELSE 10 * ToNat(SubSeq(s, 1, Len(s) - 1)) + DigitVal[Ch(s, Len(s))]

\* The elements of a finite set as a sequence, in some fixed order.
RECURSIVE SeqOf(_)
SeqOf(S) == IF S = {} THEN <<>>
            ELSE LET x == CHOOSE y \in S : TRUE IN <<x>> \o SeqOf(S \ {x})

Range(q) == {q[i] : i \in 1..Len(q)}


(***************************************************************************)
(*                               Dates                                     *)
(***************************************************************************)
DateMin == 10101        \* date.min, 0001-01-01
DateMax == 99991231     \* date.max, 9999-12-31

IsLeap(y) == (y % 4 = 0 /\ y % 100 # 0) \/ y % 400 = 0

DaysIn(y, m) ==
    IF m = 2 THEN (IF IsLeap(y) THEN 29 ELSE 28)
    ELSE IF m \in {4, 6, 9, 11} THEN 30 ELSE 31

\* datetime.strptime(text, "%Y%m%d").date() on eight digits y4 m2 d2:
\* <<the date>>, or <<>> where strptime raises ValueError.
MakeDate(y, m, d) ==
    IF y >= 1 /\ m \in 1..12 /\ d >= 1 /\ d <= DaysIn(y, m)
    THEN <<y * 10000 + m * 100 + d>>
    ELSE <<>>


\* _DATE_IN_NAME = r"_(\d{8})_T\d{6}" matched at position i of s
OldDateAt(s, i) ==
    /\ i + 16 <= Len(s)
    /\ Ch(s, i) = "_"
    /\ AllDigits(SubSeq(s, i + 1, i + 8))
    /\ SubSeq(s, i + 9, i + 10) = "_T"
    /\ AllDigits(SubSeq(s, i + 11, i + 16))

\* _DATE_FT_IN_NAME = r"(\d{4}-\d{2}-\d{2})_\d{2}_\d{2}_\d{2}" matched at i
FtDateAt(s, i) ==
    /\ i + 18 <= Len(s)
    /\ AllDigits(SubSeq(s, i, i + 3))
    /\ Ch(s, i + 4) = "-"
    /\ AllDigits(SubSeq(s, i + 5, i + 6))
    /\ Ch(s, i + 7) = "-"
    /\ AllDigits(SubSeq(s, i + 8, i + 9))
    /\ Ch(s, i + 10) = "_"
    /\ AllDigits(SubSeq(s, i + 11, i + 12))
    /\ Ch(s, i + 13) = "_"
    /\ AllDigits(SubSeq(s, i + 14, i + 15))
    /\ Ch(s, i + 16) = "_"
    /\ AllDigits(SubSeq(s, i + 17, i + 18))

\* for m in _DATE_IN_NAME.finditer(s): try: append(strptime(m.group(1), "%Y%m%d"))
\* A match whose digits are no date is passed over (except Exception: pass).
RECURSIVE OldDates(_, _)
OldDates(s, i) ==
    LET at == {j \in i..Len(s) : OldDateAt(s, j)}
        m == Min(at)
    IN IF at = {} THEN <<>>
       ELSE MakeDate(ToNat(SubSeq(s, m + 1, m + 4)),
                     ToNat(SubSeq(s, m + 5, m + 6)),
                     ToNat(SubSeq(s, m + 7, m + 8))) \o OldDates(s, m + 17)

\* for m in _DATE_FT_IN_NAME.finditer(s): try: append(strptime(m.group(1), "%Y-%m-%d"))
RECURSIVE FtDates(_, _)
FtDates(s, i) ==
    LET at == {j \in i..Len(s) : FtDateAt(s, j)}
        m == Min(at)
    IN IF at = {} THEN <<>>
       ELSE MakeDate(ToNat(SubSeq(s, m, m + 3)),
                     ToNat(SubSeq(s, m + 5, m + 6)),
                     ToNat(SubSeq(s, m + 8, m + 9))) \o FtDates(s, m + 19)

DatesIn(s) == OldDates(s, 1) \o FtDates(s, 1)

RECURSIVE DatesInParts(_)
DatesInParts(parts) ==
    IF parts = <<>> THEN <<>>
    ELSE DatesIn(Head(parts)) \o DatesInParts(Tail(parts))

\* _dates_from_filename(path): the dates in the base name; when it holds
\* none, the dates in every segment of the path.
dates_from_filename(path) ==
    LET basename == path[Len(path)]
        dates == DatesIn(basename)
    IN IF dates # <<>> THEN dates ELSE DatesInParts(path)

\* A slip: the dates of the folders pooled with those of the base name.
FileDateWindowAllSegments(path, mtime, today) ==
    LET ds == DatesInParts(path)
    IN IF ds # <<>> THEN <<Min(Range(ds)), Max(Range(ds))>>
       ELSE IF mtime # NoDate THEN <<mtime[1], mtime[1]>>
       ELSE <<today, today>>

\* A slip: the first and the last date of the name, in the order found.
FileDateWindowFirstLast(path, mtime, today) ==
    LET ds == dates_from_filename(path)
    IN IF ds # <<>> THEN <<ds[1], ds[Len(ds)]>>
       ELSE IF mtime # NoDate THEN <<mtime[1], mtime[1]>>
       ELSE <<today, today>>

\* _file_date_window(path): (min, max) of the dates of the name; else the
\* file's modification date; else (getmtime raises) today's date.
file_date_window(path, mtime, today) ==
    LET ds == dates_from_filename(path)
    IN IF ds # <<>> THEN <<Min(Range(ds)), Max(Range(ds))>>
       ELSE IF mtime # NoDate THEN <<mtime[1], mtime[1]>>
       ELSE <<today, today>>

\* A slip: windows that only touch do not overlap.
OverlapsStrictly(a, b) == ~(a[2] <= b[1] \/ b[2] <= a[1])

\* _overlaps(a, b)
overlaps(a, b) == ~(a[2] < b[1] \/ b[2] < a[1])


(***************************************************************************)
(*              find_files_by_serial_and_date (the file locator)           *)
(*                                                                         *)
(* A node of the tree is [path, isdir, mtime]: path is the sequence of     *)
(* segments below the base directory, mtime the optional modification      *)
(* date.  Every proper prefix of a node's path is a directory.             *)
(***************************************************************************)

\* A slip: the empty strings dropped, nothing trimmed.
SerialsSetUntrimmed(serials) ==
    {serials[i] : i \in {j \in 1..Len(serials) : serials[j] # ""}}

\* serials_set = {s.strip() for s in serials if s and s.strip()}
SerialsSet(serials) ==
    {Strip(serials[i]) :
        i \in {j \in 1..Len(serials) : serials[j] # "" /\ Strip(serials[j]) # ""}}

\* serials_upper = {s.upper() for s in serials_set}
SerialsUpper(serials_set) == {Upper(s) : s \in serials_set}

\* The alternatives of serial_folder_re, in the order the pattern lists them.
SerialPrefixes == <<"ipelog", "ipelog2", "ipelogger", "logger", "ipelog3", "arcos2">>

\* _?(?P<sn>\d+)$ against what follows the prefix: the digits captured, or
\* "" when there is no match.
SnAfterPrefix(rest) ==
    LET r == IF rest # "" /\ Head(rest) = "_" THEN Tail(rest) ELSE rest
    IN IF r # "" /\ AllDigits(r) THEN r ELSE ""

\* serial_folder_re.match(name).group("sn"), the first alternative that lets
\* the whole pattern match deciding it; "" when the name does not match.
RECURSIVE SerialMatch(_, _)
SerialMatch(name, k) ==
    IF k > Len(SerialPrefixes) THEN ""
    ELSE LET p == SerialPrefixes[k]
             sn == IF StartsWith(Lower(name), p)
                   THEN SnAfterPrefix(SubSeq(name, Len(p) + 1, Len(name)))
                   ELSE ""
         IN IF sn # "" THEN sn ELSE SerialMatch(name, k + 1)

serial_folder_sn(name) == SerialMatch(name, 1)

\* entries = [entry for entry in os.scandir(base_path) if entry.is_dir()]
Entries(fs) == {n.path[1] : n \in {m \in fs : m.isdir \/ Len(m.path) > 1}}

\* has_serial_folders = any(serial_folder_re.match(e.name) for e in entries)
HasSerialFolders(fs) == \E e \in Entries(fs) : serial_folder_sn(e) # ""

\* A slip: a requested serial that is a prefix of the captured digits selects.
SerialSelectedByPrefix(name, serials_set) ==
    /\ serial_folder_sn(name) # ""
    /\ \E s \in serials_set : StartsWith(serial_folder_sn(name), s)

\* sn = m.group("sn"); if sn not in serials_set: continue
SerialSelected(name, serials_set) ==
    /\ serial_folder_sn(name) # ""
    /\ serial_folder_sn(name) \in serials_set

\* A slip: a folder whose name contains, or is contained in, an identity
\* is selected.
VehicleSelectedBySubstring(name, serials_upper) ==
    /\ Strip(name) # ""
    /\ \E s \in serials_upper :
          \E i \in 1..Len(s) + Len(Strip(name)) : \E j \in 0..Len(s) + Len(Strip(name)) :
              \/ (j <= Len(s) /\ SubSeq(s, i, j) = Upper(Strip(name)))
              \/ (j <= Len(Strip(name)) /\ SubSeq(Upper(Strip(name)), i, j) = s)

\* veh_name = entry.name.strip(); skipped when empty or when
\* veh_name.upper() not in serials_upper
VehicleSelected(name, serials_upper) ==
    /\ Strip(name) # ""
    /\ Upper(Strip(name)) \in serials_upper

\* A slip: the convention decided folder by folder.
WalkedEntriesPerFolder(fs, serials_set) ==
    {e \in Entries(fs) :
        IF serial_folder_sn(e) # "" THEN SerialSelected(e, serials_set)
        ELSE VehicleSelected(e, SerialsUpper(serials_set))}

\* The folders the scan walks: one convention for the whole base directory.
WalkedEntries(fs, serials_set) ==
    IF HasSerialFolders(fs)
    THEN {e \in Entries(fs) : SerialSelected(e, serials_set)}
    ELSE {e \in Entries(fs) : VehicleSelected(e, SerialsUpper(serials_set))}

IsPrefix(p, q) == Len(p) <= Len(q) /\ SubSeq(q, 1, Len(p)) = p

\* os.walk(dir): every file (not directory) in dir and, recursively, in
\* the directories in it.
RECURSIVE WalkFiles(_, _)
WalkFiles(fs, dir) ==
    LET below   == {n \in fs : IsPrefix(dir, n.path) /\ Len(n.path) > Len(dir)}
        files   == {n \in below : ~n.isdir /\ Len(n.path) = Len(dir) + 1}
        subdirs == {SubSeq(n.path, 1, Len(dir) + 1) :
                       n \in {m \in below : m.isdir \/ Len(m.path) > Len(dir) + 1}}
    IN files \cup UNION {WalkFiles(fs, d) : d \in subdirs}

\* A slip: the extension compared as written, without upper-casing.
ClassifyCaseSensitive(fname, include_zips) ==
    IF ~(EndsWith(fname, ".LOG") \/ (include_zips /\ EndsWith(fname, ".ZIP")))
    THEN "skip"
    ELSE IF EndsWith(fname, ".LOG") THEN "log" ELSE "zip"

\* upper = fname.upper(): which list a file name is a candidate for.
Classify(fname, include_zips) ==
    LET upper == Upper(fname)
    IN IF ~(EndsWith(upper, ".LOG") \/ (include_zips /\ EndsWith(upper, ".ZIP")))
       THEN "skip"
       ELSE IF EndsWith(upper, ".LOG") THEN "log" ELSE "zip"

\* wanted_window = (date_from if date_from else date.min,
\*                  date_to if date_to else date.max)
WantedWindow(date_from, date_to) ==
    << IF date_from # NoDate THEN date_from[1] ELSE DateMin,
       IF date_to # NoDate THEN date_to[1] ELSE DateMax >>

\* The files of one walked folder that go to the list `kind`: those of
\* that kind whose date window overlaps the wanted window.
Collected(fs, r, entry, kind) ==
    {n \in WalkFiles(fs, <<entry>>) :
        /\ Classify(n.path[Len(n.path)], r.include_zips) = kind
        /\ overlaps(file_date_window(r.base_path \o n.path, n.mtime, r.today),
                    WantedWindow(r.date_from, r.date_to))}

RECURSIVE CollectAll(_, _, _, _)
CollectAll(fs, r, ents, kind) ==
    IF ents = <<>> THEN <<>>
    ELSE [i \in 1..Cardinality(Collected(fs, r, Head(ents), kind)) |->
             r.base_path \o SeqOf(Collected(fs, r, Head(ents), kind))[i].path]
         \o CollectAll(fs, r, Tail(ents), kind)

\* A slip: the FileNotFoundError of os.scandir left to reach the caller.
MissingBaseRaises ==
    [outcome |-> "raised", scanned |-> TRUE, reported |-> FALSE,
     walked |-> {}, log_files |-> <<>>, zip_files |-> <<>>]

\* except FileNotFoundError: print(...); return log_files, zip_files
MissingBase ==
    [outcome |-> "returned", scanned |-> TRUE, reported |-> TRUE,
     walked |-> {}, log_files |-> <<>>, zip_files |-> <<>>]

\* raise ValueError(...)  (line 185)
NoSerials ==
    [outcome |-> "raised", scanned |-> FALSE, reported |-> FALSE,
     walked |-> {}, log_files |-> <<>>, zip_files |-> <<>>]

\* The whole call.  fs: the tree; r: base_path, base_exists, serials,
\* date_from, date_to, include_zips and today's date.
find_files_by_serial_and_date(fs, r) ==
    LET serials_set == SerialsSet(r.serials)
        walked == WalkedEntries(fs, serials_set)
    IN IF serials_set = {} THEN NoSerials
       ELSE IF ~r.base_exists THEN MissingBase
       ELSE [outcome |-> "returned", scanned |-> TRUE, reported |-> FALSE,
             walked |-> walked,
             log_files |-> CollectAll(fs, r, SeqOf(walked), "log"),
             zip_files |-> CollectAll(fs, r, SeqOf(walked), "zip")]


(***************************************************************************)
(*                    The inputs of the locator's checks                   *)
(***************************************************************************)
MaxFolders == 2     \* immediate children of the base directory in a tree
MaxSerials == 1     \* length of the identity list of a request

File(path) == [path |-> path, isdir |-> FALSE, mtime |-> NoDate]
FileAt(path, mtime) == [path |-> path, isdir |-> FALSE, mtime |-> <<mtime>>]
Dir(path) == [path |-> path, isdir |-> TRUE, mtime |-> NoDate]

\* The children a base directory may have, each with all that is below it.
FolderUniverse ==
    { { File(<<"ipelog2_82902308", "VEH_20250101_T120000.LOG">>),
        File(<<"ipelog2_82902308", "run", "a_20250103_T000000.log">>),
        File(<<"ipelog2_82902308", "2025-01-02_08_05_36_MEA_4711.ZIP">>) },
      { File(<<"Logger17", "b_20250102_T101010.LOG">>) },
      { File(<<"ipelog_082902308", "c_20250101_T120000.LOG">>) },
      { File(<<"VEH", "VEH_20250101_T120000.LOG">>),
        File(<<"VEH", "trip_20250101_T000000_20250103_T000000.LOG">>),
        FileAt(<<"VEH", "nodate.LOG">>, 20250102),
        File(<<"VEH", "notes_20250101_T120000.txt">>),
        Dir(<<"VEH", "dir_20250101_T120000.LOG">>) },
      { File(<<"Torne", "sub", "2025-01-02_08_05_36_MEA_4461.zip">>) },
      { File(<<"VEHICLE", "v_20250101_T120000.LOG">>) },
      { File(<<"ipelog_5">>) } }

Trees == {UNION fs : fs \in {c \in SUBSET FolderUniverse : Cardinality(c) <= MaxFolders}}

IdentityUniverse ==
    { "82902308", " 82902308 ", "82902309", "082902308", "8290230", "829023080",
      "17", "veh", "  ", "" }

SerialLists == UNION {[1..n -> IdentityUniverse] : n \in 0..MaxSerials}

FromChoices == {NoDate, <<20250101>>, <<20250102>>}
ToChoices == {NoDate, <<20250101>>, <<20250103>>}

Requests ==
    [base_path : {<<"base">>}, base_exists : BOOLEAN, serials : SerialLists,
     date_from : FromChoices, date_to : ToChoices, include_zips : BOOLEAN,
     today : {20250102}]

NotCalled ==
    [outcome |-> "not_called", scanned |-> FALSE, reported |-> FALSE,
     walked |-> {}, log_files |-> <<>>, zip_files |-> <<>>]

ScanIdle == [pc |-> "idle"]

NoFiles == [n \in {} |-> <<>>]

NoScratch == [exists |-> FALSE, files |-> NoFiles]

NoOutputFiles ==
    [txt |-> [exists |-> FALSE, text |-> <<>>],
     html |-> [exists |-> FALSE, count |-> 0, blocks |-> <<>>, html |-> <<>>],
     summary |-> [exists |-> FALSE, all_lines |-> <<>>, serials_all |-> <<>>,
                  serials_with_logs |-> {}, vehicles |-> <<>>, without_logs |-> <<>>]]

NoCall == [pc |-> "idle", kind |-> "none"]

\* No run in sight: the state of the run variables outside RunSpec.
RunIdle ==
    /\ content = NoFiles
    /\ run = NoCall
    /\ scratch = NoScratch
    /\ out = NoOutputFiles
    /\ nruns = 0

(***************************************************************************)
(* Spec: one call of find_files_by_serial_and_date on any tree and request *)
(***************************************************************************)
Init ==
    /\ req \in Requests
    /\ tree \in Trees
    /\ ~req.base_exists => tree = {}
    /\ found = NotCalled
    /\ scan = ScanIdle
    /\ RunIdle

Locate ==
    /\ found.outcome = "not_called"
    /\ found' = find_files_by_serial_and_date(tree, req)
    /\ UNCHANGED <<tree, req, scan>>
    /\ UNCHANGED runVars

Next == Locate

Spec == Init /\ [][Next]_vars


(***************************************************************************)
(*                     Properties of the file locator                      *)
(***************************************************************************)
Returned == found.outcome = "returned"

\* s is t with whitespace around it.
IsTrimOf(s, t) ==
    \E i \in 1..Len(s) + 1 : \E j \in 0..Len(s) :
        /\ SubSeq(s, i, j) = t
        /\ \A k \in 1..Len(s) : (k < i \/ k > j) => Ch(s, k) \in Whitespace

\* Every identity of the request is empty or whitespace.
AllBlank(serials) ==
    \A i \in 1..Len(serials) :
        \A k \in 1..Len(serials[i]) : Ch(serials[i], k) \in Whitespace

\* The name ends in a dot and the three letters, in either case.
HasExtension(fname, ext) ==
    /\ Len(fname) >= Len(ext) + 1
    /\ Ch(fname, Len(fname) - Len(ext)) = "."
    /\ \A k \in 1..Len(ext) :
           Ch(fname, Len(fname) - Len(ext) + k) \in {Ch(ext, k), LowerCh(Ch(ext, k))}

\* Some date lies in the file's window and in the requested window.
SharesADate(n) ==
    LET w  == file_date_window(req.base_path \o n.path, n.mtime, req.today)
        lo == IF req.date_from = NoDate THEN DateMin ELSE req.date_from[1]
        hi == IF req.date_to = NoDate THEN DateMax ELSE req.date_to[1]
    IN \E d \in {w[1], w[2], lo, hi} : w[1] <= d /\ d <= w[2] /\ lo <= d /\ d <= hi

WellFormedRange ==
    req.date_from = NoDate \/ req.date_to = NoDate \/ req.date_from[1] <= req.date_to[1]

\* The files with extension ext anywhere below a walked folder that share
\* a date with the request.
ExpectedPaths(ext) ==
    {req.base_path \o n.path :
        n \in {m \in tree : /\ ~m.isdir
                            /\ Len(m.path) >= 2
                            /\ m.path[1] \in found.walked
                            /\ HasExtension(m.path[Len(m.path)], ext)
                            /\ SharesADate(m)}}

NoDuplicates(q) == Cardinality(Range(q)) = Len(q)

ExamplePath == <<"base", "VEH", "VEH_20250101_T120000.LOG">>

SerialRequested(sn) == \E i \in 1..Len(req.serials) : IsTrimOf(req.serials[i], sn)

\* C2: in the serial convention a logger folder is walked if and only if
\* the digits captured from its name equal, character for character, a
\* trimmed identity of the request; and ipelog2_82902308 is walked for
\* "82902308" alone among 82902309, 082902308, 8290230 and 829023080.
C2_SerialExactMatch ==
    (Returned /\ req.base_exists /\ HasSerialFolders(tree)) =>
        /\ \A e \in Entries(tree) :
              e \in found.walked <=>
                 (serial_folder_sn(e) # "" /\ SerialRequested(serial_folder_sn(e)))
        /\ "ipelog2_82902308" \in Entries(tree) =>
              ("ipelog2_82902308" \in found.walked
                  <=> \E i \in 1..Len(req.serials) :
                         req.serials[i] \in {"82902308", " 82902308 "})
        /\ (found.walked = {}) => (found.log_files = <<>> /\ found.zip_files = <<>>)

\* The files of ipelog2_82902308 found for identity 82902308, another
\* logger folder of the same base directory left alone.
C2_Witness ==
    /\ Returned
    /\ req.serials = <<"82902308">>
    /\ found.walked = {"ipelog2_82902308"}
    /\ Cardinality(Entries(tree)) = 2
    /\ Len(found.log_files) = 2

\* C3: a request whose identities are all empty after trimming is rejected
\* by raising, before the base directory is listed, and returns no lists;
\* no other request is rejected.
C3_EmptyIdentitiesRejected ==
    found.outcome # "not_called" =>
        /\ AllBlank(req.serials) =>
              /\ found.outcome = "raised"
              /\ ~found.scanned
              /\ found.log_files = <<>> /\ found.zip_files = <<>>
              /\ found.walked = {}
        /\ found.outcome = "raised" => AllBlank(req.serials)

\* A list of one whitespace identity rejected although the tree holds files.
C3_Witness ==
    /\ found.outcome = "raised"
    /\ req.serials = <<"  ">>
    /\ tree # {}

\* C4: with identities given and the base path missing, the call reports
\* the condition and returns two empty lists; it does not raise.
C4_MissingBaseIsEmpty ==
    (found.outcome # "not_called" /\ ~req.base_exists /\ ~AllBlank(req.serials)) =>
        /\ found.outcome = "returned"
        /\ found.reported
        /\ found.log_files = <<>> /\ found.zip_files = <<>>

C4_Witness ==
    /\ ~req.base_exists
    /\ found.outcome = "returned"
    /\ found.reported
    /\ req.serials = <<"82902308">>


(***************************************************************************)
(*               compile_keyword_patterns and filter_log_file              *)
(*                                                                         *)
(* A compiled pattern is a sequence of atoms, [lit |-> c] for a literal    *)
(* character and [any |-> TRUE] for an unescaped dot.  A text file is      *)
(* [status, lines, readable]: its lines as iteration delivers them (each   *)
(* with its line ending), status "ok", "missing", "open_error" (open()     *)
(* raises another error) or "read_error" (iteration raises after           *)
(* `readable` lines).                                                      *)
(***************************************************************************)

\* The characters re.escape puts a backslash before.
SpecialChars ==
    {"(", ")", "[", "]", "{", "}", "?", "*", "+", "-", "|", "^", "$", "\\",
     ".", "&", "~", "#", " ", "\t", "\n", "\r", "\f"}

\* re.escape(k)
re_escape(k) ==
    Join([i \in 1..Len(k) |->
             IF Ch(k, i) \in SpecialChars THEN "\\" \o Ch(k, i) ELSE Ch(k, i)],
         1, Len(k))

\* re.compile(p, re.IGNORECASE) for patterns of literals, escapes and dots
\* A character is escaped when an odd number of backslashes stands right
\* before it; a backslash that is not escaped and not the last character
\* only escapes the next one.
re_compile(p) ==
    LET slashes(i) == Cardinality({j \in 1..(i - 1) :
                                      \A k \in j..(i - 1) : Ch(p, k) = "\\"})
        escaped(i) == slashes(i) % 2 = 1
        atoms == SelectSeq([i \in 1..Len(p) |-> i],
                           LAMBDA i : escaped(i) \/ ~(Ch(p, i) = "\\" /\ i < Len(p)))
    IN [n \in 1..Len(atoms) |->
           IF escaped(atoms[n]) THEN [lit |-> Ch(p, atoms[n])]
           ELSE IF Ch(p, atoms[n]) = "." THEN [any |-> TRUE]
           ELSE [lit |-> Ch(p, atoms[n])]]

\* A slip: the keyword compiled as a pattern, without re.escape.
CompileUnescaped(k) == re_compile(k)

\* re.compile(re.escape(k), re.IGNORECASE)
CompileKeyword(k) == re_compile(re_escape(k))

\* compile_keyword_patterns(keywords)
compile_keyword_patterns(keywords) ==
    [i \in 1..Len(keywords) |-> CompileKeyword(keywords[i])]

\* One atom against one character, letters compared without case.
AtomMatches(atom, c) ==
    IF "any" \in DOMAIN atom THEN c # "\n"
    ELSE LowerCh(atom.lit) = LowerCh(c)

\* p.search(line)
re_search(atoms, line) ==
    \E start \in 0..(Len(line) - Len(atoms)) :
        \A j \in 1..Len(atoms) : AtomMatches(atoms[j], Ch(line, start + j))

\* os.path.basename(file_path)
Basename(path) == path[Len(path)]

\* for line_no, line in enumerate(f, 1) over the first n lines:
\*     if any(p.search(line) ...): resultat.append((basename, line_no, line.strip()))
RECURSIVE ScanLines(_, _, _, _)
ScanLines(base, lines, n, patterns) ==
    IF n = 0 THEN <<>>
    ELSE ScanLines(base, lines, n - 1, patterns)
         \o (IF \E i \in 1..Len(patterns) : re_search(patterns[i], lines[n])
             THEN << <<base, n, Strip(lines[n])>> >>
             ELSE <<>>)

\* except Exception as e: print(f"Error reading file: {e}"); return resultat
\* after an error raised while the lines are iterated.
ReadErrorResult(base, file, patterns) ==
    [resultat |-> ScanLines(base, file.lines, file.readable, patterns),
     reported |-> TRUE, raised |-> FALSE]

\* filter_log_file(file_path, keyword_patterns)
filter_log_file(file_path, file, keyword_patterns) ==
    IF file.status \in {"missing", "open_error"}
    THEN [resultat |-> <<>>, reported |-> TRUE, raised |-> FALSE]
    ELSE IF file.status = "read_error"
    THEN ReadErrorResult(Basename(file_path), file, keyword_patterns)
    ELSE [resultat |-> ScanLines(Basename(file_path), file.lines,
                                 Len(file.lines), keyword_patterns),
          reported |-> FALSE, raised |-> FALSE]


(***************************************************************************)
(*                       extract_log_files_from_zip                        *)
(*                                                                         *)
(* An archive is [status, entries, extractable]: entries is the sequence   *)
(* of [name, lines] in namelist() order; status is "ok", "bad_zip"         *)
(* (ZipFile() raises) or "bad_entry" (extraction raises once `extractable` *)
(* LOG entries have been extracted).  The scratch directory's files are a  *)
(* function from the path below the directory to the file's lines.         *)
(***************************************************************************)

\* The last position of character c in s, 0 when there is none.
LastIndex(s, c) ==
    LET at == {i \in 1..Len(s) : Ch(s, i) = c}
    IN IF at = {} THEN 0 ELSE Max(at)

\* os.path.basename(name) and os.path.dirname(name) of an entry name
NameBase(name) == SubSeq(name, LastIndex(name, "/") + 1, Len(name))
NameDir(name) == SubSeq(name, 1, LastIndex(name, "/") - 1)

\* os.path.splitext(b)
SplitExt(b) ==
    LET dot == LastIndex(b, ".")
    IN IF dot <= 1 THEN <<b, "">>
       ELSE <<SubSeq(b, 1, dot - 1), SubSeq(b, dot, Len(b))>>

\* logs = [n for n in names if n.upper().endswith('.LOG')]
LogEntries(entries) == SelectSeq(entries, LAMBDA e : EndsWith(Upper(e.name), ".LOG"))

\* f with name bound to lines (the file created or overwritten)
WriteFile(f, name, lines) ==
    [n \in DOMAIN f \cup {name} |-> IF n = name THEN lines ELSE f[n]]

RemoveFile(f, name) == [n \in DOMAIN f \ {name} |-> f[n]]

\* Where the entry ends up: its base name, or base_zipname.ext when a file
\* of that name is already in the scratch directory.
Destination(files, log, zipname) ==
    LET dst == NameBase(log)
    IN IF dst \in DOMAIN files
       THEN SplitExt(NameBase(log))[1] \o "_" \o zipname \o SplitExt(NameBase(log))[2]
       ELSE dst

\* One pass of the loop "for log in logs": zf.extract, then the move of an
\* entry that sat in a folder.  st is [files, extracted].
ExtractOne(st, e, zipname) ==
    LET written == WriteFile(st.files, e.name, e.lines)
    IN IF NameDir(e.name) # "" \/ e.name # NameBase(e.name)
       THEN LET dst == Destination(written, e.name, zipname)
            IN [files |-> WriteFile(RemoveFile(written, e.name), dst, e.lines),
                extracted |-> Append(st.extracted, dst)]
       ELSE [files |-> written, extracted |-> Append(st.extracted, e.name)]

RECURSIVE ExtractAll(_, _, _)
ExtractAll(st, logs, zipname) ==
    IF logs = <<>> THEN st
    ELSE ExtractAll(ExtractOne(st, Head(logs), zipname), Tail(logs), zipname)

\* extract_log_files_from_zip(zip_path, temp_dir): the paths returned, the
\* scratch directory's files afterwards, and whether an error was printed.
extract_log_files_from_zip(zip_path, zip, files) ==
    LET logs == LogEntries(zip.entries)
        zipname == Basename(zip_path)
        start == [files |-> files, extracted |-> <<>>]
    IN IF zip.status = "bad_zip"
       THEN [extracted |-> <<>>, files |-> files, reported |-> TRUE, raised |-> FALSE]
       ELSE IF logs = <<>>
       THEN [extracted |-> <<>>, files |-> files, reported |-> FALSE, raised |-> FALSE]
       ELSE IF zip.status = "bad_entry"
       THEN LET st == ExtractAll(start, SubSeq(logs, 1, zip.extractable), zipname)
            IN [extracted |-> st.extracted, files |-> st.files,
                reported |-> TRUE, raised |-> FALSE]
       ELSE LET st == ExtractAll(start, logs, zipname)
            IN [extracted |-> st.extracted, files |-> st.files,
                reported |-> FALSE, raised |-> FALSE]

(***************************************************************************)
(* FilterSpec: one call of filter_log_file with the patterns of            *)
(* compile_keyword_patterns, on any file and keyword list                  *)
(***************************************************************************)
MaxLines == 2       \* lines of a text file
MaxKeywords == 1    \* keywords of a configuration

LineUniverse ==
    {"Error: disk full\n", "all fine\n", "  a.b  \n", "axb\n", "ERROR", "\n"}

KeywordUniverse == {"error", "a.b", "", "FINE", " a"}

\* Only the last line of a file can lack its line ending.
LineLists ==
    {ls \in UNION {[1..n -> LineUniverse] : n \in 0..MaxLines} :
        \A i \in 1..Len(ls) - 1 : EndsWith(ls[i], "\n")}

KeywordLists == UNION {[1..n -> KeywordUniverse] : n \in 0..MaxKeywords}

\* The states a file of the given lines can be in when it is read.
FileStates(ls) ==
    {[status |-> "ok", lines |-> ls, readable |-> Len(ls)],
     [status |-> "missing", lines |-> <<>>, readable |-> 0],
     [status |-> "open_error", lines |-> ls, readable |-> 0]}
    \cup {[status |-> "read_error", lines |-> ls, readable |-> k] : k \in 0..Len(ls)}

LogPaths == {<<"base", "VEH", "app_20250101_T120000.LOG">>, <<"app.log">>}

NoOutput == [resultat |-> <<>>, reported |-> FALSE, raised |-> FALSE]

ScanInputs ==
    {[pc |-> "ready", path |-> p, file |-> f, keywords |-> ks, out |-> NoOutput] :
        p \in LogPaths, f \in UNION {FileStates(ls) : ls \in LineLists},
        ks \in KeywordLists}

RequestIdle ==
    [base_path |-> <<"base">>, base_exists |-> FALSE, serials |-> <<>>,
     date_from |-> NoDate, date_to |-> NoDate, include_zips |-> FALSE,
     today |-> 20250102]

FilterInit ==
    /\ scan \in ScanInputs
    /\ tree = {}
    /\ req = RequestIdle
    /\ found = NotCalled
    /\ RunIdle

Filter ==
    /\ scan.pc = "ready"
    /\ scan' = [scan EXCEPT
                  !.pc = "returned",
                  !.out = filter_log_file(scan.path, scan.file,
                                          compile_keyword_patterns(scan.keywords))]
    /\ UNCHANGED <<tree, req, found>>
    /\ UNCHANGED runVars

FilterNext == Filter

FilterSpec == FilterInit /\ [][FilterNext]_vars

(***************************************************************************)
(*                     Properties of the keyword filter                    *)
(***************************************************************************)
\* k occurs in line as a substring, letters compared without case.
OccursIn(k, line) ==
    \E start \in 0..(Len(line) - Len(k)) :
        \A j \in 1..Len(k) :
            \/ Ch(line, start + j) = Ch(k, j)
            \/ UpperCh(Ch(line, start + j)) = UpperCh(Ch(k, j))

HasKeyword(line) == \E i \in 1..Len(scan.keywords) : OccursIn(scan.keywords[i], line)

\* t is line without the whitespace around it.
IsTrimmed(t, line) ==
    /\ IsTrimOf(line, t)
    /\ t # "" => (Ch(t, 1) \notin Whitespace /\ Ch(t, Len(t)) \notin Whitespace)

\* C5: on a readable file the result holds, in file order, one entry for
\* exactly the lines in which a keyword occurs literally (case ignored),
\* each with the file's base name, the 1-based line number and the trimmed
\* line; ["error"] on "Error: disk full", "all fine" gives line 1 alone.
C5_ExactlyMatchingLines ==
    (scan.pc = "returned" /\ scan.file.status = "ok") =>
        LET res == scan.out.resultat
            lines == scan.file.lines
        IN /\ \A k \in 1..Len(res) :
                 /\ res[k][1] = scan.path[Len(scan.path)]
                 /\ res[k][2] \in 1..Len(lines)
                 /\ HasKeyword(lines[res[k][2]])
                 /\ IsTrimmed(res[k][3], lines[res[k][2]])
                 /\ k > 1 => res[k - 1][2] < res[k][2]
           /\ \A n \in 1..Len(lines) :
                 HasKeyword(lines[n]) => \E k \in 1..Len(res) : res[k][2] = n
           /\ (lines = <<"Error: disk full\n", "all fine\n">>
                  /\ scan.keywords = <<"error">>)
                 => res = << <<scan.path[Len(scan.path)], 1, "Error: disk full">> >>

\* The example of the claim: two lines, one entry, for line 1.
C5_Witness ==
    /\ scan.pc = "returned"
    /\ scan.file.status = "ok"
    /\ scan.file.lines = <<"Error: disk full\n", "all fine\n">>
    /\ scan.keywords = <<"error">>
    /\ scan.out.resultat = << <<scan.path[Len(scan.path)], 1, "Error: disk full">> >>

\* C6: whenever reading fails (file missing, error at open, error while
\* the lines are iterated) the call reports it, returns an empty sequence
\* and does not raise.
C6_FailureYieldsEmpty ==
    (scan.pc = "returned" /\ scan.file.status # "ok") =>
        /\ scan.out.resultat = <<>>
        /\ scan.out.reported
        /\ ~scan.out.raised


(***************************************************************************)
(*              process_selected_files and run_summary_range               *)
(***************************************************************************)

\* A file of the scratch directory as filter_log_file finds it.
ScratchFile(files, name) ==
    IF name \in DOMAIN files
    THEN [status |-> "ok", lines |-> files[name], readable |-> Len(files[name])]
    ELSE [status |-> "missing", lines |-> <<>>, readable |-> 0]

\* for log in extracted: lines = filter_log_file(log, patterns, highlight_words)
\* One [name, lines] per extracted path, name being os.path.basename(log).
RECURSIVE FilterExtracted(_, _, _)
FilterExtracted(extracted, files, patterns) ==
    IF extracted = <<>> THEN <<>>
    ELSE << [name  |-> Head(extracted),
             lines |-> filter_log_file(<<"tmp", Head(extracted)>>,
                                       ScratchFile(files, Head(extracted)),
                                       patterns).resultat] >>
         \o FilterExtracted(Tail(extracted), files, patterns)

\* if lines: results.setdefault(name, []).extend(lines)
AddResult(results, name, lines) ==
    IF lines = <<>> THEN results
    ELSE [k \in DOMAIN results \cup {name} |->
             (IF k \in DOMAIN results THEN results[k] ELSE <<>>)
             \o (IF k = name THEN lines ELSE <<>>)]

RECURSIVE AddResults(_, _)
AddResults(results, perfile) ==
    IF perfile = <<>> THEN results
    ELSE AddResults(AddResult(results, Head(perfile).name, Head(perfile).lines),
                    Tail(perfile))

\* all_lines.extend(lines), file after file
RECURSIVE AllLinesOf(_)
AllLinesOf(perfile) ==
    IF perfile = <<>> THEN <<>>
    ELSE Head(perfile).lines \o AllLinesOf(Tail(perfile))

\* _serial_from_path(path): the serial of the first segment that is a
\* logger folder name, "" for None.
RECURSIVE serial_from_path(_)
serial_from_path(parts) ==
    IF parts = <<>> THEN ""
    ELSE IF serial_folder_sn(Head(parts)) # "" THEN serial_folder_sn(Head(parts))
    ELSE serial_from_path(Tail(parts))

\* _id_from_path(path): the serial, else the first segment below the base
\* path, "" for None.
id_from_path(path, base_path) ==
    IF serial_from_path(path) # "" THEN serial_from_path(path)
    ELSE IF IsPrefix(base_path, path) /\ Len(path) > Len(base_path)
    THEN path[Len(base_path) + 1]
    ELSE ""

\* f"{filename} - Line {line_number}: {content}"
FormatMatch(m) == m[1] \o " - Line " \o ToString(m[2]) \o ": " \o m[3]

\* A slip: the header states the number of files, not of matches.
SaveTextCountingFiles(filtered_lines) ==
    [exists |-> TRUE,
     text |-> << "Total matches found: "
                    \o ToString(Cardinality({m[1] : m \in Range(filtered_lines)})),
                 "==================================================",
                 "" >>
              \o [i \in 1..Len(filtered_lines) |-> FormatMatch(filtered_lines[i])]]

\* save_results_as_text(filtered_lines, output_file): the lines written
\* to the file opened with mode 'w'.
save_results_as_text(filtered_lines) ==
    [exists |-> TRUE,
     text |-> << "Total matches found: " \o ToString(Len(filtered_lines)),
                 "==================================================",
                 "" >>
              \o [i \in 1..Len(filtered_lines) |-> FormatMatch(filtered_lines[i])]]

(***************************************************************************)
(* highlight_text.  highlight_words is the dict as the sequence of its     *)
(* items <<word, color>> in insertion order; the words are distinct.       *)
(***************************************************************************)
ColorsReset == "[0m"

\* text.replace('&', '&amp;').replace('<', '&lt;').replace('>', '&gt;')
EscapeHtml(t) ==
    Join([i \in 1..Len(t) |->
             CASE Ch(t, i) = "&" -> "&amp;"
               [] Ch(t, i) = "<" -> "&lt;"
               [] Ch(t, i) = ">" -> "&gt;"
               [] OTHER -> Ch(t, i)], 1, Len(t))

\* sorted(highlight_words.items(), key=lambda x: len(x[0]), reverse=True):
\* longest word first, items of equal length in their order.
RECURSIVE SortedItems(_)
SortedItems(items) ==
    IF items = <<>> THEN <<>>
    ELSE LET longest == Max({Len(items[i][1]) : i \in 1..Len(items)})
             first == Min({i \in 1..Len(items) : Len(items[i][1]) = longest})
         IN <<items[first]>>
            \o SortedItems([i \in 1..Len(items) - 1 |->
                               IF i < first THEN items[i] ELSE items[i + 1]])

\* word.lower() in ["match", "mismatch"] and " " not in word
WordBounded(word) == Lower(word) \in {"match", "mismatch"}

\* \w
IsWordChar(c) == c \in LowerSet \cup UpperSet \cup DigitSet \cup {"_"}

\* \b at the gap before position i of t
BoundaryBefore(t, i) ==
    (i > 1 /\ IsWordChar(Ch(t, i - 1))) # (i <= Len(t) /\ IsWordChar(Ch(t, i)))

\* The compiled pattern, between \b and \b when bounded, matches at
\* position i of t.
AtomsMatchAt(t, i, atoms, bounded) ==
    /\ i + Len(atoms) - 1 <= Len(t)
    /\ \A j \in 1..Len(atoms) : AtomMatches(atoms[j], Ch(t, i + j - 1))
    /\ bounded => BoundaryBefore(t, i) /\ BoundaryBefore(t, i + Len(atoms))

\* The pattern of word matches at position i of t.
MatchesAt(t, i, word) == AtomsMatchAt(t, i, CompileKeyword(word), WordBounded(word))

\* The CSS class of the span put around word.
CssClass(word) ==
    IF Lower(word) = "match" THEN "match"
    ELSE IF Lower(word) = "mismatch" THEN "mismatch"
    ELSE IF re_search(CompileKeyword("configuration"), Lower(word)) THEN "configuration"
    ELSE "highlight"

\* pattern.sub(before + "\g<0>" + after, t) from position i on
RECURSIVE SubFrom(_, _, _, _, _, _)
SubFrom(t, i, atoms, bounded, before, after) ==
    LET at == {j \in i..Len(t) : AtomsMatchAt(t, j, atoms, bounded)}
        m == Min(at)
    IN IF at = {} THEN SubSeq(t, i, Len(t))
       ELSE SubSeq(t, i, m - 1)
            \o before \o SubSeq(t, m, m + Len(atoms) - 1) \o after
            \o SubFrom(t, m + Len(atoms), atoms, bounded, before, after)

PatternSub(t, i, word, before, after) ==
    SubFrom(t, i, CompileKeyword(word), WordBounded(word), before, after)

\* for word, color in sorted_items: result = pattern.sub(..., result)
RECURSIVE ApplyItems(_, _, _)
ApplyItems(result, items, html_mode) ==
    IF items = <<>> THEN result
    ELSE ApplyItems(
            IF html_mode
            THEN PatternSub(result, 1, Head(items)[1],
                            "<span class=\"" \o CssClass(Head(items)[1]) \o "\">",
                            "</span>")
            ELSE PatternSub(result, 1, Head(items)[1], Head(items)[2], ColorsReset),
            Tail(items), html_mode)

\* highlight_text(text, highlight_words, html_mode)
highlight_text(text, highlight_words, html_mode) ==
    IF highlight_words = <<>> THEN text
    ELSE ApplyItems(IF html_mode THEN EscapeHtml(EscapeHtml(text)) ELSE text,
                    SortedItems(highlight_words), html_mode)

\* save_results_as_html(filtered_lines, output_file, highlight_words): the
\* count of the summary paragraph, one block per match and the html_content
\* of each block.
save_results_as_html(filtered_lines, highlight_words) ==
    [exists |-> TRUE, count |-> Len(filtered_lines), blocks |-> filtered_lines,
     html |-> [i \in 1..Len(filtered_lines) |->
                  highlight_text(filtered_lines[i][3], highlight_words, TRUE)]]

(***************************************************************************)
(*                          The vehicle summary                            *)
(***************************************************************************)

\* The characters of the texts in the order of their code points.
AsciiChars ==
    "\t\n\r !\"#$%&'()*+,-./0123456789:;<=>?@ABCDEFGHIJKLMNOPQRSTUVWXYZ[\\]^_abcdefghijklmnopqrstuvwxyz{|}~"

Code(c) == CHOOSE i \in 1..Len(AsciiChars) : Ch(AsciiChars, i) = c

\* a < b for str
StrLess(a, b) ==
    LET differ == {i \in 1..Min({Len(a), Len(b)}) : Ch(a, i) # Ch(b, i)}
    IN IF differ = {} THEN Len(a) < Len(b)
       ELSE Code(Ch(a, Min(differ))) < Code(Ch(b, Min(differ)))

\* t[i - 1:].startswith(sub)
HasAt(t, i, sub) ==
    i + Len(sub) - 1 <= Len(t) /\ SubSeq(t, i, i + Len(sub) - 1) = sub

\* str.find(sub) + 1: the first position of sub in t, 0 when it is not in t
IndexOf(t, sub) ==
    LET at == {i \in 1..(Len(t) - Len(sub) + 1) : SubSeq(t, i, i + Len(sub) - 1) = sub}
    IN IF at = {} THEN 0 ELSE Min(at)

\* sub in t
Contains(t, sub) == IndexOf(t, sub) > 0

\* t.split(sub, 1)[1].strip()
AfterFirst(t, sub) == Strip(SubSeq(t, IndexOf(t, sub) + Len(sub), Len(t)))

\* [A-Za-z0-9]
Alnum == LowerSet \cup UpperSet \cup DigitSet

\* The last position of the run of characters of t from i on that are in S
\* (in = TRUE) or not in S (in = FALSE), i - 1 when the run is empty.
RunEnd(t, i, S, in) ==
    LET stops == {j \in i..Len(t) : (Ch(t, j) \in S) # in}
    IN IF i > Len(t) THEN i - 1
       ELSE IF stops = {} THEN Len(t)
       ELSE Min(stops) - 1

\* re.search(r'Configuration file:\s*([^_\\/ \t]+)_', content): group 1,
\* "" when there is no match.
ConfigVehicle(t) ==
    LET marker == "Configuration file:"
        first(i) == RunEnd(t, i + Len(marker), Whitespace, TRUE) + 1
        last(i) == RunEnd(t, first(i), {"_", "\\", "/", " ", "\t"}, FALSE)
        at == {i \in 1..Len(t) :
                  /\ HasAt(t, i, marker)
                  /\ last(i) >= first(i)
                  /\ last(i) < Len(t) /\ Ch(t, last(i) + 1) = "_"}
    IN IF at = {} THEN "" ELSE SubSeq(t, first(Min(at)), last(Min(at)))

\* re.search(r'\b([A-Za-z0-9]+)_BEV3', content): group 1, "" for no match
Bev3Vehicle(t) ==
    LET last(i) == RunEnd(t, i, Alnum, TRUE)
        at == {i \in 1..Len(t) :
                  /\ BoundaryBefore(t, i)
                  /\ last(i) >= i
                  /\ HasAt(t, last(i) + 1, "_BEV3")}
    IN IF at = {} THEN "" ELSE SubSeq(t, Min(at), last(Min(at)))

\* re.match(r'([A-Za-z0-9]+)_\d{8}_T', base): group 1, "" for no match
FileVehicle(base) ==
    LET last == RunEnd(base, 1, Alnum, TRUE)
    IN IF /\ last >= 1
          /\ Len(base) >= last + 11
          /\ Ch(base, last + 1) = "_"
          /\ AllDigits(SubSeq(base, last + 2, last + 9))
          /\ SubSeq(base, last + 10, last + 11) = "_T"
       THEN SubSeq(base, 1, last) ELSE ""

\* A slip: the name of the file asked before the content.
VehicleFromFileNameFirst(filename, t) ==
    IF FileVehicle(filename) # "" THEN FileVehicle(filename)
    ELSE IF ConfigVehicle(t) # "" THEN ConfigVehicle(t)
    ELSE IF Bev3Vehicle(t) # "" THEN Bev3Vehicle(t)
    ELSE "Unknown"

\* _vehicle_from_content(filename, content)
vehicle_from_content(filename, t) ==
    IF ConfigVehicle(t) # "" THEN ConfigVehicle(t)
    ELSE IF Bev3Vehicle(t) # "" THEN Bev3Vehicle(t)
    ELSE IF FileVehicle(filename) # "" THEN FileVehicle(filename)
    ELSE "Unknown"

\* file_to_vehicle: the vehicle of the last "Configuration file:" line of
\* each file that names one.
RECURSIVE FileToVehicle(_)
FileToVehicle(all_lines) ==
    IF all_lines = <<>> THEN NoFiles
    ELSE LET m == all_lines[Len(all_lines)]
             veh == vehicle_from_content(m[1], m[3])
             earlier == FileToVehicle(SubSeq(all_lines, 1, Len(all_lines) - 1))
         IN IF Contains(m[3], "Configuration file:") /\ veh # "Unknown"
            THEN [f \in DOMAIN earlier \cup {m[1]} |-> IF f = m[1] THEN veh ELSE earlier[f]]
            ELSE earlier

\* A slip: the file's mapping never asked.
VehRawOwnIdentity(m, file_to_vehicle) == vehicle_from_content(m[1], m[3])

\* veh_raw of a matched line
VehRaw(m, file_to_vehicle) ==
    IF vehicle_from_content(m[1], m[3]) = "Unknown" /\ m[1] \in DOMAIN file_to_vehicle
    THEN file_to_vehicle[m[1]]
    ELSE vehicle_from_content(m[1], m[3])

\* A slip: the key is the name as written.
VehKeyAsWritten(veh_raw) ==
    IF Strip(veh_raw) = "" THEN "unknown" ELSE Strip(veh_raw)

\* veh_key = (veh_raw or "Unknown").strip().lower() or "unknown"
VehKey(veh_raw) ==
    IF Lower(Strip(veh_raw)) = "" THEN "unknown" ELSE Lower(Strip(veh_raw))

\* The protocol entry of a line, <<>> when it has none.
ProtocolOf(t) ==
    IF Contains(t, "Protocols:") THEN <<AfterFirst(t, "Protocols:")>>
    ELSE IF Contains(t, "CCP: EPK")
    THEN <<IF AfterFirst(t, "CCP: EPK") # "" THEN "CCP: EPK " \o AfterFirst(t, "CCP: EPK")
           ELSE "CCP: EPK">>
    ELSE <<>>

\* A slip: the word looked for as it is written.
FlagsMismatchAsWritten(t) ==
    ProtocolOf(t) # <<>> /\ Contains(ProtocolOf(t)[1], "mismatch")

\* if "mismatch" in part.lower(): v["has_mismatch"] = True
FlagsMismatch(t) ==
    ProtocolOf(t) # <<>> /\ Contains(Lower(ProtocolOf(t)[1]), "mismatch")

\* One pass of the loop over all_lines: the record of the line's vehicle
\* created when there is none, then updated.  vehicles is the dict as the
\* sequence of its values in insertion order, each with its key.
AddLine(vehicles, m, file_to_vehicle) ==
    LET veh_raw == VehRaw(m, file_to_vehicle)
        veh_key == VehKey(veh_raw)
        fresh == [key |-> veh_key, name_display |-> veh_raw, configs |-> {},
                  protocols |-> <<>>, has_mismatch |-> FALSE, sources |-> {}]
        vs == IF \E i \in 1..Len(vehicles) : vehicles[i].key = veh_key
              THEN vehicles ELSE Append(vehicles, fresh)
    IN [i \in 1..Len(vs) |->
           IF vs[i].key # veh_key THEN vs[i]
           ELSE [vs[i] EXCEPT
                   !.sources = @ \cup {m[1]},
                   !.configs = IF Contains(m[3], "Configuration file:")
                               THEN @ \cup {AfterFirst(m[3], "Configuration file:")}
                               ELSE @,
                   !.protocols = @ \o ProtocolOf(m[3]),
                   !.has_mismatch = @ \/ FlagsMismatch(m[3])]]

RECURSIVE Vehicles(_, _)
Vehicles(all_lines, file_to_vehicle) ==
    IF all_lines = <<>> THEN <<>>
    ELSE AddLine(Vehicles(SubSeq(all_lines, 1, Len(all_lines) - 1), file_to_vehicle),
                 all_lines[Len(all_lines)], file_to_vehicle)

\* A slip: the display names compared as they are written.
SortsBeforeCaseSensitive(a, b) ==
    \/ a.has_mismatch /\ ~b.has_mismatch
    \/ a.has_mismatch = b.has_mismatch /\ StrLess(a.name_display, b.name_display)

\* key(a) < key(b) for key = (not has_mismatch, name_display.lower())
SortsBefore(a, b) ==
    \/ a.has_mismatch /\ ~b.has_mismatch
    \/ a.has_mismatch = b.has_mismatch
         /\ StrLess(Lower(a.name_display), Lower(b.name_display))

\* sorted(vehicles.values(), key=...): stable
RECURSIVE SortedVehicles(_)
SortedVehicles(vs) ==
    IF vs = <<>> THEN <<>>
    ELSE LET first == Min({i \in 1..Len(vs) :
                              \A j \in 1..Len(vs) : ~SortsBefore(vs[j], vs[i])})
         IN <<vs[first]>>
            \o SortedVehicles([i \in 1..Len(vs) - 1 |->
                                  IF i < first THEN vs[i] ELSE vs[i + 1]])

\* serials_list = [s.strip() for s in serials if s and s.strip()]
SerialsList(serials) ==
    LET kept == SelectSeq(serials, LAMBDA x : x # "" /\ Strip(x) # "")
    IN [i \in 1..Len(kept) |-> Strip(kept[i])]

\* A slip: the identities compared as they are written.
WithoutLogsCaseSensitive(serials_all, serials_with_logs) ==
    {x \in Range(SerialsList(serials_all)) :
        x \notin {Strip(y) : y \in serials_with_logs}}

\* {s for s in serials_all_clean if s.lower() not in with_lower}
WithoutLogs(serials_all, serials_with_logs) ==
    LET with_lower == {Lower(Strip(x)) : x \in {y \in serials_with_logs : Strip(y) # ""}}
    IN {x \in Range(SerialsList(serials_all)) : Lower(x) \notin with_lower}

\* sorted(W, key=lambda x: x.lower()): the orders the set can come out in
\* (strings that differ in case only keep the order the set yields them in).
SortedByLower(W) ==
    {q \in [1..Cardinality(W) -> W] :
        /\ \A i, j \in 1..Cardinality(W) : q[i] = q[j] => i = j
        /\ \A i, j \in 1..Cardinality(W) : i < j => ~StrLess(Lower(q[j]), Lower(q[i]))}

\* write_vehicle_summary_html(all_lines, output_html, serials_all,
\* serials_with_logs, ...): the documents the call can write, each with what
\* it was written from, the vehicle records in the order of their headings
\* and the identities of the list at the end.
write_vehicle_summary_html(all_lines, serials_all, serials_with_logs) ==
    {[exists |-> TRUE, all_lines |-> all_lines, serials_all |-> serials_all,
      serials_with_logs |-> serials_with_logs,
      vehicles |-> SortedVehicles(Vehicles(all_lines, FileToVehicle(all_lines))),
      without_logs |-> q] :
        q \in SortedByLower(WithoutLogs(serials_all, serials_with_logs))}

\* The locals of a call when it starts.
NewCall(kind, r, log_files, zip_files, keywords) ==
    [pc |-> "start", kind |-> kind, request |-> r,
     log_files |-> log_files, zip_files |-> zip_files,
     patterns |-> compile_keyword_patterns(keywords),
     zi |-> 1, li |-> 1,
     temp_dir |-> FALSE,         \* temp_dir is not None
     pending |-> FALSE,          \* an exception is propagating
     extracted |-> <<>>,         \* of the archive handled last
     all_lines |-> <<>>, results |-> NoFiles,
     serials_with_logs |-> {},
     reports |-> {}]             \* the inputs an error was printed for

\* A slip: the scratch directory removed on the way out of a try block
\* that completed, and left behind when an exception is propagating.
RemovesUnlessRaising(call, dir) == call.temp_dir /\ dir.exists /\ ~call.pending

\* finally: if temp_dir and os.path.exists(temp_dir): shutil.rmtree(temp_dir)
FinallyRemoves(call, dir) == call.temp_dir /\ dir.exists

\* One archive of the loop "for zp in zip_files": extraction, then the
\* filtering of each extracted log.
ZipStep(call, dir, zp, zip) ==
    LET ex == extract_log_files_from_zip(zp, zip, dir.files)
    IN [files   |-> ex.files,
        extracted |-> ex.extracted,
        raised  |-> ex.raised,
        perfile |-> FilterExtracted(ex.extracted, ex.files, call.patterns),
        reported |-> ex.reported]


(***************************************************************************)
(*                        The inputs of the runs                           *)
(***************************************************************************)
MaxRuns == 2        \* calls made one after the other on the same outputs

Keywords == <<"error">>

\* The highlight_words of load_config's default configuration.
DefaultHighlight ==
    << <<"mismatch", "[91m">>, <<"match", "[92m">>, <<"Configuration file:", "[94m">> >>

LogData(lines) == [status |-> "ok", lines |-> lines, readable |-> Len(lines)]
ZipData(entries) ==
    [status |-> "ok", entries |-> entries, extractable |-> Len(LogEntries(entries))]
Entry(name, lines) == [name |-> name, lines |-> lines]

VehLog == <<"base", "VEH", "VEH_20250101_T120000.LOG">>
VehZip == <<"base", "VEH", "2025-01-02_08_05_36_MEA_4711.ZIP">>
TorneLog == <<"base", "Torne", "T_20250103_T000000.LOG">>
TorneZip == <<"base", "Torne", "2025-01-03_08_05_36_MEA_1.ZIP">>

\* The folders a base directory of the runs may hold: path -> data.
RunFolderUniverse ==
    { (VehLog :> LogData(<<"Error: disk full\n", "all fine\n">>))
        @@ (VehZip :> ZipData(<< Entry("logs/a.LOG", <<"error in a\n">>),
                                 Entry("b.log", <<"ok\n", "ERROR b\n">>),
                                 Entry("readme.txt", <<"error text\n">>) >>)),
      (TorneLog :> LogData(<<"all fine\n">>))
        @@ (TorneZip :> ZipData(<< Entry("a.LOG", <<"error again\n">>),
                                   Entry("x/a.LOG", <<"late error\n">>) >>)) }

RECURSIVE Merge(_)
Merge(fs) == IF fs = {} THEN NoFiles
             ELSE LET f == CHOOSE g \in fs : TRUE IN f @@ Merge(fs \ {f})

\* The base directory of the runs holds both folders.
RunContents == {Merge(RunFolderUniverse)}

IsArchive(d) == "entries" \in DOMAIN d

\* The ways one input can be broken.
Faults(d) ==
    IF IsArchive(d)
    THEN {[d EXCEPT !.status = "bad_zip", !.extractable = 0]}
         \cup {[d EXCEPT !.status = "bad_entry", !.extractable = k] :
                  k \in 0..(Len(LogEntries(d.entries)) - 1)}
    ELSE {[status |-> "missing", lines |-> <<>>, readable |-> 0]}
         \cup {[d EXCEPT !.status = "read_error", !.readable = k] : k \in 0..Len(d.lines)}

\* A base directory's contents with at most one broken input.
FaultyContents ==
    RunContents
    \cup UNION {UNION {{[c EXCEPT ![p] = f] : f \in Faults(c[p])} : p \in DOMAIN c} :
                    c \in RunContents}

\* The tree of a content: the nodes find_files_by_serial_and_date sees.
TreeOf(c) == {File(SubSeq(p, 2, Len(p))) : p \in DOMAIN c}

RunRequests ==
    [base_path : {<<"base">>}, base_exists : {TRUE},
     serials : {<<"Torne", "B", "a", "A">>, <<"veh", " Torne ">>, <<>>},
     date_from : {NoDate}, date_to : {NoDate}, include_zips : BOOLEAN,
     today : {20250102}]

\* What find_files_by_serial_and_date returns for each base directory and
\* request of the runs.
Located ==
    [t \in {TreeOf(c) : c \in RunContents} |->
        [r \in RunRequests \cup {[q EXCEPT !.serials = SerialsList(q.serials)] :
                                    q \in RunRequests} |->
            find_files_by_serial_and_date(t, r)]]

(***************************************************************************)
(* RunSpec: calls of process_selected_files (on the files its callers      *)
(* located) and of run_summary_range, one after the other                  *)
(***************************************************************************)
RunInit ==
    /\ content \in FaultyContents
    /\ tree = TreeOf(content)
    /\ req = RequestIdle
    /\ found = NotCalled
    /\ scan = ScanIdle
    /\ run = NoCall
    /\ scratch = NoScratch
    /\ out = NoOutputFiles
    /\ nruns = 0

CanStart == run.pc \in {"idle", "done", "raised"} /\ nruns < MaxRuns

\* The caller locates the files and, when there are any, calls
\* process_selected_files(log_files, zip_files, keywords, ...).
P_Start ==
    /\ CanStart
    /\ \E r \in RunRequests :
          LET loc == Located[tree][r]
          IN /\ loc.outcome = "returned"
             /\ loc.log_files # <<>> \/ loc.zip_files # <<>>
             /\ run' = [NewCall("process", r, loc.log_files, loc.zip_files, Keywords)
                           EXCEPT !.pc = "p_temp"]
    /\ nruns' = nruns + 1
    /\ UNCHANGED <<tree, req, found, scan, content, scratch, out>>

\* try: if zip_files: temp_dir = tempfile.mkdtemp()
P_MakeTemp ==
    /\ run.pc = "p_temp"
    /\ IF run.zip_files # <<>>
       THEN /\ scratch' = [exists |-> TRUE, files |-> NoFiles]
            /\ run' = [run EXCEPT !.temp_dir = TRUE, !.pc = "p_zips"]
       ELSE /\ run' = [run EXCEPT !.pc = "p_logs"]
            /\ UNCHANGED scratch
    /\ UNCHANGED <<tree, req, found, scan, content, out, nruns>>

\* for zp in zip_files: extract, filter, collect
P_Zip ==
    /\ run.pc = "p_zips"
    /\ LET zp == run.zip_files[run.zi]
           st == ZipStep(run, scratch, zp, content[zp])
       IN /\ scratch' = [scratch EXCEPT !.files = st.files]
          /\ run' = [run EXCEPT
                       !.extracted = st.extracted,
                       !.results = AddResults(@, st.perfile),
                       !.all_lines = @ \o AllLinesOf(st.perfile),
                       !.reports = IF st.reported THEN @ \cup {zp} ELSE @,
                       !.zi = @ + 1,
                       !.pc = IF run.zi = Len(run.zip_files) THEN "p_logs" ELSE "p_zips"]
    /\ UNCHANGED <<tree, req, found, scan, content, out, nruns>>

\* for log_path in log_files: filter, collect
P_Log ==
    /\ run.pc = "p_logs"
    /\ run.li <= Len(run.log_files)
    /\ LET lp == run.log_files[run.li]
           res == filter_log_file(lp, content[lp], run.patterns)
       IN run' = [run EXCEPT
                    !.results = AddResult(@, Basename(lp), res.resultat),
                    !.all_lines = @ \o res.resultat,
                    !.reports = IF res.reported THEN @ \cup {lp} ELSE @,
                    !.li = @ + 1]
    /\ UNCHANGED <<tree, req, found, scan, content, scratch, out, nruns>>

P_LogsDone ==
    /\ run.pc = "p_logs"
    /\ run.li > Len(run.log_files)
    /\ run' = [run EXCEPT !.pc = "p_finally"]
    /\ UNCHANGED <<tree, req, found, scan, content, scratch, out, nruns>>

\* An exception that no handler inside the try block catches (raised by a
\* print, KeyboardInterrupt, ...) leaves the block by way of finally.
P_Raise ==
    /\ run.pc \in {"p_zips", "p_logs"}
    /\ run' = [run EXCEPT !.pending = TRUE, !.pc = "p_finally"]
    /\ UNCHANGED <<tree, req, found, scan, content, scratch, out, nruns>>

\* finally: if temp_dir and os.path.exists(temp_dir): shutil.rmtree(temp_dir)
P_Finally ==
    /\ run.pc = "p_finally"
    /\ scratch' = IF FinallyRemoves(run, scratch) THEN NoScratch ELSE scratch
    /\ run' = [run EXCEPT !.pc = IF run.pending THEN "raised" ELSE "p_save"]
    /\ UNCHANGED <<tree, req, found, scan, content, out, nruns>>

\* if all_lines: save_results_as_text(...); save_results_as_html(...)
\* return results
P_Save ==
    /\ run.pc = "p_save"
    /\ out' = IF run.all_lines # <<>>
              THEN [out EXCEPT !.txt = save_results_as_text(run.all_lines),
                               !.html = save_results_as_html(run.all_lines, DefaultHighlight)]
              ELSE out
    /\ run' = [run EXCEPT !.pc = "done"]
    /\ UNCHANGED <<tree, req, found, scan, content, scratch, nruns>>

\* run_summary_range(base_path, serials, ...): the early return on an empty
\* serials_list, else the files of find_files_by_serial_and_date.
S_Start ==
    /\ CanStart
    /\ \E r \in RunRequests :
          LET serials_list == SerialsList(r.serials)
              loc == Located[tree][[r EXCEPT !.serials = serials_list]]
          IN run' = IF serials_list = <<>>
                    THEN [NewCall("summary", r, <<>>, <<>>, Keywords) EXCEPT !.pc = "done"]
                    ELSE [NewCall("summary", r, loc.log_files, loc.zip_files, Keywords)
                             EXCEPT !.pc = "s_logs"]
    /\ nruns' = nruns + 1
    /\ UNCHANGED <<tree, req, found, scan, content, scratch, out>>

\* for log_path in log_files: note the id, filter, collect
S_Log ==
    /\ run.pc = "s_logs"
    /\ run.li <= Len(run.log_files)
    /\ LET lp == run.log_files[run.li]
           id == id_from_path(lp, run.request.base_path)
           res == filter_log_file(lp, content[lp], run.patterns)
       IN run' = [run EXCEPT
                    !.serials_with_logs = IF id # "" THEN @ \cup {id} ELSE @,
                    !.all_lines = @ \o res.resultat,
                    !.reports = IF res.reported THEN @ \cup {lp} ELSE @,
                    !.li = @ + 1]
    /\ UNCHANGED <<tree, req, found, scan, content, scratch, out, nruns>>

S_LogsDone ==
    /\ run.pc = "s_logs"
    /\ run.li > Len(run.log_files)
    /\ run' = [run EXCEPT !.pc = "s_temp"]
    /\ UNCHANGED <<tree, req, found, scan, content, scratch, out, nruns>>

\* try: if zip_files: temp_dir = tempfile.mkdtemp()
S_MakeTemp ==
    /\ run.pc = "s_temp"
    /\ IF run.zip_files # <<>>
       THEN /\ scratch' = [exists |-> TRUE, files |-> NoFiles]
            /\ run' = [run EXCEPT !.temp_dir = TRUE, !.pc = "s_zips"]
       ELSE /\ run' = [run EXCEPT !.pc = "s_finally"]
            /\ UNCHANGED scratch
    /\ UNCHANGED <<tree, req, found, scan, content, out, nruns>>

\* for zp in zip_files: note the id, extract, filter, collect
S_Zip ==
    /\ run.pc = "s_zips"
    /\ LET zp == run.zip_files[run.zi]
           id == id_from_path(zp, run.request.base_path)
           st == ZipStep(run, scratch, zp, content[zp])
       IN /\ scratch' = [scratch EXCEPT !.files = st.files]
          /\ run' = [run EXCEPT
                       !.serials_with_logs = IF id # "" THEN @ \cup {id} ELSE @,
                       !.extracted = st.extracted,
                       !.all_lines = @ \o AllLinesOf(st.perfile),
                       !.reports = IF st.reported THEN @ \cup {zp} ELSE @,
                       !.zi = @ + 1,
                       !.pc = IF run.zi = Len(run.zip_files) THEN "s_finally" ELSE "s_zips"]
    /\ UNCHANGED <<tree, req, found, scan, content, out, nruns>>

\* An exception that no handler inside the try block catches.
S_Raise ==
    /\ run.pc = "s_zips"
    /\ run' = [run EXCEPT !.pending = TRUE, !.pc = "s_finally"]
    /\ UNCHANGED <<tree, req, found, scan, content, scratch, out, nruns>>

\* finally: if temp_dir and os.path.isdir(temp_dir): shutil.rmtree(temp_dir, ...)
S_Finally ==
    /\ run.pc = "s_finally"
    /\ scratch' = IF FinallyRemoves(run, scratch) THEN NoScratch ELSE scratch
    /\ run' = [run EXCEPT !.pc = IF run.pending THEN "raised" ELSE "s_write"]
    /\ UNCHANGED <<tree, req, found, scan, content, out, nruns>>

\* write_vehicle_summary_html(all_lines, f"{output_prefix}_summary.html", ...)
S_Write ==
    /\ run.pc = "s_write"
    /\ \E doc \in write_vehicle_summary_html(run.all_lines,
                                               SerialsList(run.request.serials),
                                               run.serials_with_logs) :
          out' = [out EXCEPT !.summary = doc]
    /\ run' = [run EXCEPT !.pc = "done"]
    /\ UNCHANGED <<tree, req, found, scan, content, scratch, nruns>>

RunNext ==
    \/ P_Start \/ P_MakeTemp \/ P_Zip \/ P_Log \/ P_LogsDone
    \/ P_Raise \/ P_Finally \/ P_Save
    \/ S_Start \/ S_Log \/ S_LogsDone \/ S_MakeTemp \/ S_Zip
    \/ S_Raise \/ S_Finally \/ S_Write

RunSpec == RunInit /\ [][RunNext]_vars

(***************************************************************************)
(*                         Properties of the runs                          *)
(***************************************************************************)
InCall == run.kind \in {"process", "summary"}

\* The archive the loop "for zp in zip_files" handled last.
LastZip == run.zip_files[run.zi - 1]

\* C7: for an archive that is corrupt, whether opening it fails or the
\* extraction of one of its entries fails, extract_log_files_from_zip
\* reports it and returns an empty sequence to its caller.
C7_CorruptYieldsEmpty ==
    (InCall /\ run.zi > 1 /\ content[LastZip].status # "ok") =>
        /\ run.extracted = <<>>
        /\ LastZip \in run.reports

\* The trimmed lines of a text in which a keyword of the runs occurs.
KeywordTexts(lines) ==
    {Strip(lines[i]) : i \in {j \in 1..Len(lines) :
                                 \E k \in 1..Len(Keywords) : OccursIn(Keywords[k], lines[j])}}

\* The matching lines an input holds: those of a log file, or those of
\* the LOG entries of an archive.  No two inputs of the runs share one.
TextsOf(p) ==
    IF IsArchive(content[p])
    THEN UNION {KeywordTexts(e.lines) : e \in Range(LogEntries(content[p].entries))}
    ELSE KeywordTexts(content[p].lines)

\* The lines that made it into the matches of the call.
Contributed == {m[3] : m \in Range(run.all_lines)}

LocatedInputs == Range(run.log_files) \cup Range(run.zip_files)

\* C8: when a call of process_selected_files or run_summary_range has gone
\* through its inputs, every input that failed (log missing or unreadable,
\* archive corrupt) was reported and contributed nothing, and every other
\* located input contributed all of its matching lines.
C8_FailedItemSkipped ==
    (InCall /\ run.pc = "done") =>
        \A p \in LocatedInputs :
            IF content[p].status = "ok"
            THEN TextsOf(p) \subseteq Contributed
            ELSE p \in run.reports /\ TextsOf(p) \cap Contributed = {}

\* C9: once a call of process_selected_files or run_summary_range is past
\* its try block, by return or by an exception, no scratch directory and
\* none of its files exist.
C9_ScratchRemoved ==
    (InCall /\ run.pc \in {"p_save", "s_write", "done", "raised"}) =>
        scratch = NoScratch

\* A call that created the directory, extracted an archive into it and
\* ended by an exception: the directory is gone.
C9_Witness ==
    /\ InCall
    /\ run.pc = "raised"
    /\ run.temp_dir
    /\ run.extracted # <<>>
    /\ scratch = NoScratch

\* The match lines of {prefix}.txt, none when the file does not exist.
TxtMatches == IF out.txt.exists THEN SubSeq(out.txt.text, 4, Len(out.txt.text)) ELSE <<>>

\* The match blocks of {prefix}.html, none when the file does not exist.
HtmlMatches == IF out.html.exists THEN out.html.blocks ELSE <<>>

\* C10: when a call of process_selected_files returns, {prefix}.txt and
\* {prefix}.html hold exactly the matches of that call, whatever earlier
\* calls wrote to the same paths.
C10_OutputsOfLatestRun ==
    (run.kind = "process" /\ run.pc = "done") =>
        /\ TxtMatches = [i \in 1..Len(run.all_lines) |-> FormatMatch(run.all_lines[i])]
        /\ HtmlMatches = run.all_lines

(***************************************************************************)
(*                       The report files as text                          *)
(***************************************************************************)

\* out.write(line + "\n") for each line: the characters of the file
RECURSIVE FileData(_)
FileData(text) ==
    IF text = <<>> THEN "" ELSE Head(text) \o "\n" \o FileData(Tail(text))

\* The position of the first line feed of s, 0 when there is none.
FirstLineFeed(s, i) ==
    LET at == {j \in i..Len(s) : Ch(s, j) = "\n"}
    IN IF at = {} THEN 0 ELSE Min(at)

\* Reading a text file line by line: the lines without their line feed.
RECURSIVE ReadLines(_)
ReadLines(data) ==
    IF data = "" THEN <<>>
    ELSE LET nl == FirstLineFeed(data, 1)
         IN IF nl = 0 THEN <<data>>
            ELSE <<SubSeq(data, 1, nl - 1)>> \o ReadLines(SubSeq(data, nl + 1, Len(data)))

(***************************************************************************)
(* ReportSpec: one call of a report writer on any list of matched lines    *)
(***************************************************************************)
MaxMatches == 2     \* matched lines handed to a report writer

\* Matched lines as filter_log_file makes them: base name, line number,
\* trimmed line.
MatchUniverse ==
    {<<f, n, c>> : f \in {"a.LOG", "b.log"}, n \in {1, 12},
                   c \in {"Error: disk full", "", "x - Line 2: mismatch"}}

MatchLists == UNION {[1..n -> MatchUniverse] : n \in 0..MaxMatches}

MaxTerms == 2       \* items of a highlight_words dict

TermUniverse == {"match", "mismatch", "Configuration file:", "configuration", "file"}

\* The dicts of up to MaxTerms terms, in every insertion order.
TermDicts ==
    {[i \in 1..Len(ws) |-> <<ws[i], "[93m">>] :
        ws \in {q \in UNION {[1..n -> TermUniverse] : n \in 0..MaxTerms} :
                  \A i, j \in 1..Len(q) : q[i] = q[j] => i = j}}

HighlightedTexts ==
    {"match and mismatch", "Configuration file: a<b", "MisMatch rematch Match_1",
     "profile & configuration"}

MaxSummaryLines == 3    \* matched lines handed to the summary writer

\* Matched lines with the markers the summary reads.
SummaryUniverse ==
    { <<"V1_log.LOG", 3, "Protocols: X mismatch Y">>,
      <<"V1_20250101_T120000.LOG", 3, "Protocols: X mismatch Y">>,
      <<"alpha_20250101_T120000.LOG", 1, "Configuration file: Zeta_BEV3_cfg">>,
      <<"alpha_20250101_T120000.LOG", 2, "Protocols: all match">>,
      <<"Beta_20250102_T000000.LOG", 5, "CCP: EPK MISMATCH">>,
      <<"x.LOG", 1, "Configuration file: beta_1">>,
      <<"x.LOG", 2, "Protocols: ok">>,
      <<"x.LOG", 3, "CCP: EPK mismatch Protocols: ok">> }

SummaryLists == UNION {[1..n -> SummaryUniverse] : n \in 0..MaxSummaryLines}

\* The input of a report writer: the matched lines, the highlight words and
\* the identities requested and found.
ReportInput(ls, d, all, with) ==
    [outcome |-> "matched", filtered_lines |-> ls, highlight_words |-> d,
     serials_all |-> all, serials_with_logs |-> with]

\* Any list of matched lines with the default highlight words, one matched
\* line with any dict of highlight words, or any list of summary lines, or
\* requested identities some of which were found.
ReportInputs ==
    {ReportInput(ls, DefaultHighlight, <<"V1">>, {"V1"}) :
        ls \in MatchLists \cup SummaryLists}
    \cup {ReportInput(<< <<"a.LOG", 1, t>> >>, d, <<"V1">>, {"V1"}) :
             t \in HighlightedTexts, d \in TermDicts}
    \cup {ReportInput(<<>>, DefaultHighlight, all, with) :
             all \in {<<"A", "B">>, <<"b", " a", "A">>, <<"B", "", "C">>},
             with \in SUBSET {"A", "a", "b "}}

ReportInit ==
    /\ run = [pc |-> "ready", kind |-> "report", writer |-> "none"]
    /\ found \in ReportInputs
    /\ tree = {}
    /\ req = RequestIdle
    /\ scan = ScanIdle
    /\ content = NoFiles
    /\ scratch = NoScratch
    /\ out = NoOutputFiles
    /\ nruns = 0

\* save_results_as_text(filtered_lines, output_txt)
SaveText ==
    /\ run.pc = "ready"
    /\ out' = [out EXCEPT !.txt = save_results_as_text(found.filtered_lines)]
    /\ run' = [run EXCEPT !.pc = "written", !.writer = "text"]
    /\ UNCHANGED <<tree, req, found, scan, content, scratch, nruns>>

\* save_results_as_html(filtered_lines, output_html, highlight_words)
SaveHtml ==
    /\ run.pc = "ready"
    /\ out' = [out EXCEPT !.html = save_results_as_html(found.filtered_lines,
                                                        found.highlight_words)]
    /\ run' = [run EXCEPT !.pc = "written", !.writer = "html"]
    /\ UNCHANGED <<tree, req, found, scan, content, scratch, nruns>>

\* write_vehicle_summary_html(all_lines, output_html, serials_all,
\* serials_with_logs)
WriteSummary ==
    /\ run.pc = "ready"
    /\ \E doc \in write_vehicle_summary_html(found.filtered_lines, found.serials_all,
                                               found.serials_with_logs) :
          out' = [out EXCEPT !.summary = doc]
    /\ run' = [run EXCEPT !.pc = "written", !.writer = "summary"]
    /\ UNCHANGED <<tree, req, found, scan, content, scratch, nruns>>

ReportNext == SaveText \/ SaveHtml \/ WriteSummary

ReportSpec == ReportInit /\ [][ReportNext]_vars

(***************************************************************************)
(*                       Properties of the reports                         *)
(***************************************************************************)
Wrote(w) == run.kind = "report" /\ run.pc = "written" /\ run.writer = w

HeaderPrefix == "Total matches found: "

\* C11: read back, {prefix}.txt is a header stating the count, a rule, an
\* empty line and then one line "{file} - Line {n}: {content}" per match
\* in list order; the stated count is the number of match lines read.
C11_TextRoundTrip ==
    Wrote("text") =>
        LET ls == found.filtered_lines
            back == ReadLines(FileData(out.txt.text))
            stated == SubSeq(back[1], Len(HeaderPrefix) + 1, Len(back[1]))
        IN /\ Len(back) = Len(ls) + 3
           /\ StartsWith(back[1], HeaderPrefix)
           /\ AllDigits(stated) /\ stated # ""
           /\ ToNat(stated) = Len(back) - 3
           /\ ToNat(stated) = Len(ls)
           /\ back[3] = ""
           /\ \A i \in 1..Len(ls) :
                 back[i + 3] = ls[i][1] \o " - Line " \o ToString(ls[i][2])
                                  \o ": " \o ls[i][3]

\* Two matches in one file, the second with an empty trimmed line.
C11_Witness ==
    /\ Wrote("text")
    /\ found.filtered_lines = << <<"a.LOG", 1, "Error: disk full">>, <<"a.LOG", 12, "">> >>
    /\ ReadLines(FileData(out.txt.text))[1] = "Total matches found: 2"
    /\ ReadLines(FileData(out.txt.text))[5] = "a.LOG - Line 12: "

\* The classes highlight_text gives its spans.
SpanClasses == {"match", "mismatch", "configuration", "highlight"}

OpenTag(c) == "<span class=\"" \o c \o "\">"
CloseTag == "</span>"

StartsAt(r, i, t) == i + Len(t) - 1 <= Len(r) /\ SubSeq(r, i, i + Len(t) - 1) = t

\* r from position i on as characters and intact span tags; a "<" that
\* does not begin an intact tag is marked bad.
\* The length of the intact tag that begins at position k of r, 0 when
\* none does.  A tag holds "<" as its first character only, so no tag
\* begins inside another.
TagAt(r, k) ==
    IF StartsAt(r, k, CloseTag) THEN Len(CloseTag)
    ELSE IF \E c \in SpanClasses : StartsAt(r, k, OpenTag(c))
    THEN Len(OpenTag(CHOOSE d \in SpanClasses : StartsAt(r, k, OpenTag(d))))
    ELSE 0

TokenAt(r, k) ==
    IF StartsAt(r, k, CloseTag) THEN [kind |-> "close"]
    ELSE IF \E c \in SpanClasses : StartsAt(r, k, OpenTag(c))
    THEN [kind |-> "open", class |-> CHOOSE d \in SpanClasses : StartsAt(r, k, OpenTag(d))]
    ELSE IF Ch(r, k) = "<" THEN [kind |-> "bad"]
    ELSE [kind |-> "ch", c |-> Ch(r, k)]

Tokens(r, i) ==
    LET starts == SelectSeq([k \in 1..Len(r) |-> k],
                            LAMBDA k : k >= i /\ ~\E j \in i..(k - 1) : TagAt(r, j) > k - j)
    IN [n \in 1..Len(starts) |-> TokenAt(r, starts[n])]

\* The text that is left when the tags are taken out.
PlainText(toks) ==
    Join([n \in 1..Len(toks) |-> IF toks[n].kind = "ch" THEN toks[n].c ELSE ""],
         1, Len(toks))

\* Every tag is intact, and spans open and close in turn: none inside another.
SpansFlat(toks) ==
    LET tags == SelectSeq(toks, LAMBDA t : t.kind # "ch")
    IN /\ \A i \in 1..Len(tags) :
             tags[i].kind = (IF i % 2 = 1 THEN "open" ELSE "close")
       /\ Len(tags) % 2 = 0

\* The spans as <<first, last, class>> in positions of the plain text.
Spans(toks) ==
    LET before(k) == Len(SelectSeq(SubSeq(toks, 1, k), LAMBDA t : t.kind = "ch"))
        pairs == {pr \in (1..Len(toks)) \X (1..Len(toks)) :
                     /\ toks[pr[1]].kind = "open"
                     /\ toks[pr[2]].kind = "close"
                     /\ pr[1] < pr[2]
                     /\ \A m \in (pr[1] + 1)..(pr[2] - 1) : toks[m].kind = "ch"}
    IN {<<before(pr[1]) + 1, before(pr[2]), toks[pr[1]].class>> : pr \in pairs}

\* C12: in the html_content of every block the spans are intact and none
\* is inside another, the text between the tags is the text as it was
\* before the terms were applied, and each occurrence of the longest term
\* is one span of its class; "match and mismatch" with the terms match and
\* mismatch has "mismatch" in one mismatch span and the first word in a
\* match span.
C12_LongestFirstNoNesting ==
    Wrote("html") =>
        \A n \in 1..Len(out.html.html) :
            LET text == found.filtered_lines[n][3]
                words == {found.highlight_words[i][1] :
                             i \in 1..Len(found.highlight_words)}
                toks == Tokens(out.html.html[n], 1)
                plain == PlainText(toks)
            IN words # {} =>
               /\ SpansFlat(toks)
               /\ plain = EscapeHtml(EscapeHtml(text))
               /\ \A w \in words :
                     (\A v \in words : Len(v) < Len(w)) =>
                        \A k \in 1..Len(plain) :
                           MatchesAt(plain, k, w) =>
                              <<k, k + Len(w) - 1, CssClass(w)>> \in Spans(toks)
               /\ (text = "match and mismatch" /\ words = {"match", "mismatch"}) =>
                     out.html.html[n] = OpenTag("match") \o "match" \o CloseTag \o " and "
                                        \o OpenTag("mismatch") \o "mismatch" \o CloseTag

\* The vehicle records in the order of their headings.
Rendered == out.summary.vehicles

ExampleProtocol == "Protocols: X mismatch Y"

\* The record of key k is there, flagged, and before every unflagged one.
FlaggedFirst(k) ==
    \E i \in 1..Len(Rendered) :
        /\ Rendered[i].key = k
        /\ Rendered[i].has_mismatch
        /\ \A j \in 1..Len(Rendered) : ~Rendered[j].has_mismatch => i < j

\* C13 as stated: from the matched line ("V1_log.LOG", 3, "Protocols: X
\* mismatch Y") the summary has the record keyed "v1", flagged has_mismatch
\* and rendered before every record without mismatch.
C13_RecordKeyedV1 ==
    (Wrote("summary")
        /\ <<"V1_log.LOG", 3, ExampleProtocol>> \in Range(found.filtered_lines))
    => FlaggedFirst("v1")

\* C13 amended: from the matched line ("V1_20250101_T120000.LOG", 3,
\* "Protocols: X mismatch Y"), whose file name has the form
\* NAME_yyyymmdd_T..., the summary has the record keyed "v1", flagged
\* has_mismatch and rendered before every record without mismatch.
C13_RecordKeyedByDatedFileName ==
    (Wrote("summary")
        /\ <<"V1_20250101_T120000.LOG", 3, ExampleProtocol>> \in Range(found.filtered_lines))
    => FlaggedFirst("v1")

\* The line comes last, after lines of two vehicles without mismatch.
C13_Witness ==
    /\ Wrote("summary")
    /\ Len(found.filtered_lines) = 3
    /\ found.filtered_lines[3] = <<"V1_20250101_T120000.LOG", 3, ExampleProtocol>>
    /\ Len(Rendered) = 3
    /\ Rendered[1].key = "v1" /\ Rendered[1].has_mismatch
    /\ ~Rendered[2].has_mismatch /\ ~Rendered[3].has_mismatch

\* C14: in the order of the headings no vehicle without mismatch is before
\* one with mismatch, and among vehicles that agree on the flag the display
\* names, letters compared without case, are in ascending order.
C14_MismatchFirstThenAlphabetical ==
    Wrote("summary") =>
        \A i, j \in 1..Len(Rendered) :
            i < j =>
                /\ Rendered[j].has_mismatch => Rendered[i].has_mismatch
                /\ Rendered[i].has_mismatch = Rendered[j].has_mismatch =>
                      StrLess(Lower(Rendered[i].name_display),
                              Lower(Rendered[j].name_display))

\* "alpha" is before "Zeta", which the code points alone would put first,
\* and both are after the flagged "V1".
C14_Witness ==
    /\ Wrote("summary")
    /\ [i \in 1..Len(Rendered) |-> Rendered[i].name_display] = <<"V1", "alpha", "Zeta">>
    /\ Rendered[1].has_mismatch /\ ~Rendered[2].has_mismatch

\* The identities of the list under the separate heading, in its order.
Listed == out.summary.without_logs

\* A summary run that wrote its document.
SummaryWritten ==
    run.kind = "summary" /\ run.pc = "done" /\ SerialsList(run.request.serials) # <<>>

Requested == Range(SerialsList(run.request.serials))

\* The identity a located file is counted for: the serial of the first
\* logger folder on its path, else its folder below the base path.
IdentityOf(p) ==
    LET loggers == {i \in 1..Len(p) : serial_folder_sn(p[i]) # ""}
    IN IF loggers # {} THEN serial_folder_sn(p[Min(loggers)])
       ELSE p[Len(run.request.base_path) + 1]

FilesOf(x) == {p \in LocatedInputs : Lower(IdentityOf(p)) = Lower(x)}

\* A matched line of the run came from a file of identity x.
ProducedMatch(x) == \E p \in FilesOf(x) : TextsOf(p) \cap Contributed # {}

InOrderByLower(q) ==
    \A i, j \in 1..Len(q) : i < j => ~StrLess(Lower(q[j]), Lower(q[i]))

\* C15 as stated: a requested identity is in the list if and only if the
\* run produced no matched line for it, letters compared without case; no
\* identity is in the list twice, and the list is in alphabetical order.
C15_ListedIffNoMatch ==
    SummaryWritten =>
        /\ \A x \in Requested :
              (\E i \in 1..Len(Listed) : Lower(Listed[i]) = Lower(x)) <=> ~ProducedMatch(x)
        /\ \A i, j \in 1..Len(Listed) : Lower(Listed[i]) = Lower(Listed[j]) => i = j
        /\ InOrderByLower(Listed)

\* C15 amended: a requested identity is in the list if and only if no LOG
\* file or archive was located for it, letters compared without case and
\* whether or not its files produced a matched line; each requested
\* spelling of such an identity is in the list once, and the list is in
\* alphabetical order, letters compared without case.
C15_ListedIffNoFileLocated ==
    SummaryWritten =>
        /\ \A x \in Requested : x \in Range(Listed) <=> FilesOf(x) = {}
        /\ Range(Listed) \subseteq Requested
        /\ \A i, j \in 1..Len(Listed) : Listed[i] = Listed[j] => i = j
        /\ InOrderByLower(Listed)

\* Torne's log file was located and has no matching line: Torne is not in
\* the list, the identities without files are, "B" after "a" and "A".
C15_Witness ==
    /\ SummaryWritten
    /\ run.log_files = <<TorneLog>> /\ run.zip_files = <<>>
    /\ run.all_lines = <<>>
    /\ Listed = <<"A", "a", "B">>

(***************************************************************************)
(* DateSpec: one call of _file_date_window on any path, or of _overlaps    *)
(* on any two windows                                                      *)
(***************************************************************************)

\* Paths with no date, one date, several dates in either order, digits
\* that are no date, and a date in a folder name only.
WindowPaths ==
    { <<"notes.LOG">>,
      <<"">>,
      <<"base", "VEH", "VEH_20250101_T120000.LOG">>,
      <<"base", "VEH", "a_20250103_T000000_20250101_T235959.LOG">>,
      <<"base", "VEH", "2025-01-02_08_05_36_MEA_20250104_T000000.ZIP">>,
      <<"base", "VEH", "a_20251301_T000000.LOG">>,
      <<"base", "VEH", "2025-02-30_08_05_36_x.ZIP">>,
      <<"base", "run_20240229_T101010", "2024-03-01_00_00_00", "plain.log">>,
      <<"base", "run_20240229_T101010", "b_20250102_T000000.LOG">>,
      <<"base", "a_00000101_T000000", "x.LOG">> }

\* The modification date of the file, none when the file does not exist.
WindowInputs ==
    {[pc |-> "ready", kind |-> "window", path |-> p, mtime |-> m, today |-> t] :
        p \in WindowPaths, m \in {NoDate, <<20250102>>}, t \in {20250105, 20251231}}

WindowDates == {20241231, 20250101, 20250102}

OverlapInputs ==
    {[pc |-> "ready", kind |-> "overlap", a |-> a, b |-> b] :
        a \in WindowDates \X WindowDates, b \in WindowDates \X WindowDates}

DateInit ==
    /\ scan \in WindowInputs \cup OverlapInputs
    /\ tree = {}
    /\ req = RequestIdle
    /\ found = NotCalled
    /\ RunIdle

\* _file_date_window(path)
FileWindow ==
    /\ scan.pc = "ready" /\ scan.kind = "window"
    /\ scan' = [pc |-> "windowed", kind |-> "window", path |-> scan.path,
                mtime |-> scan.mtime, today |-> scan.today,
                window |-> file_date_window(scan.path, scan.mtime, scan.today)]
    /\ UNCHANGED <<tree, req, found>>
    /\ UNCHANGED runVars

\* _overlaps(a, b), _overlaps(b, a), _overlaps(a, a)
Overlap ==
    /\ scan.pc = "ready" /\ scan.kind = "overlap"
    /\ scan' = [pc |-> "compared", kind |-> "overlap", a |-> scan.a, b |-> scan.b,
                ab |-> overlaps(scan.a, scan.b), ba |-> overlaps(scan.b, scan.a),
                aa |-> overlaps(scan.a, scan.a)]
    /\ UNCHANGED <<tree, req, found>>
    /\ UNCHANGED runVars

DateNext == FileWindow \/ Overlap

DateSpec == DateInit /\ [][DateNext]_vars

(***************************************************************************)
(*                      Properties of the date windows                     *)
(***************************************************************************)
\* d is a calendar date between date.min and date.max.
IsDate(d) ==
    /\ d \in DateMin..DateMax
    /\ (d \div 100) % 100 \in 1..12
    /\ d % 100 \in 1..DaysIn(d \div 10000, (d \div 100) % 100)

\* C16: whatever the path, with the file there or not, the call returns a
\* pair of dates with start <= end; a path without a date that names no
\* file gives the window of today alone.
C16_WindowNeverFails ==
    (scan.pc = "windowed") =>
        /\ IsDate(scan.window[1]) /\ IsDate(scan.window[2])
        /\ scan.window[1] <= scan.window[2]
        /\ (dates_from_filename(scan.path) = <<>> /\ scan.mtime = NoDate) =>
              scan.window = <<scan.today, scan.today>>

\* No date in the path and no file of that name.
C16_Witness ==
    /\ scan.pc = "windowed"
    /\ scan.path = <<"notes.LOG">>
    /\ scan.mtime = NoDate
    /\ scan.window = <<20250105, 20250105>>

\* A window whose start is not after its end.
IsWindow(w) == w[1] <= w[2]

\* Some day lies in both windows.
ShareADay(a, b) ==
    \E d \in WindowDates : a[1] <= d /\ d <= a[2] /\ b[1] <= d /\ d <= b[2]

\* C17: every window overlaps itself, overlaps(a, b) = overlaps(b, a), and
\* two windows do not overlap exactly when one ends before the other
\* starts, that is when no day lies in both.
C17_ReflexiveSymmetric ==
    (scan.pc = "compared") =>
        /\ scan.ab = scan.ba
        /\ IsWindow(scan.a) => scan.aa
        /\ (IsWindow(scan.a) /\ IsWindow(scan.b)) =>
              /\ scan.ab = ShareADay(scan.a, scan.b)
              /\ (~scan.ab) = (scan.a[2] < scan.b[1] \/ scan.b[2] < scan.a[1])

\* Two windows that meet on one day only, compared both ways.
C17_Witness ==
    /\ scan.pc = "compared"
    /\ scan.a = <<20241231, 20250101>>
    /\ scan.b = <<20250101, 20250102>>
    /\ scan.ab /\ scan.ba /\ scan.aa

(***************************************************************************)
(* ConventionSpec: one call of the locator on base directories that hold   *)
(* logger folders, vehicle folders or both, for one or two identities      *)
(***************************************************************************)
ConventionFolders ==
    { { File(<<"Logger17", "b_20250102_T101010.LOG">>) },
      { File(<<"17", "d_20250102_T101010.LOG">>) },
      { File(<<"ipelog2_82902308", "2025-01-02_08_05_36_MEA_4711.ZIP">>) },
      { File(<<"VEH", "VEH_20250101_T120000.LOG">>) },
      { File(<<" VEH ", "p_20250101_T120000.LOG">>) },
      { File(<<"VEHICLE", "v_20250101_T120000.LOG">>) } }

ConventionTrees == {UNION fs : fs \in SUBSET ConventionFolders}

ConventionIdentities == {"17", "veh", " Veh ", "VEHICLE", "VE", "82902308"}

ConventionSerials ==
    [1..1 -> ConventionIdentities] \cup [1..2 -> ConventionIdentities]

ConventionRequests ==
    [base_path : {<<"base">>}, base_exists : {TRUE}, serials : ConventionSerials,
     date_from : {NoDate}, date_to : {NoDate}, include_zips : BOOLEAN,
     today : {20250102}]

ConventionInit ==
    /\ req \in ConventionRequests
    /\ tree \in ConventionTrees
    /\ found = NotCalled
    /\ scan = ScanIdle
    /\ RunIdle

ConventionSpec == ConventionInit /\ [][Next]_vars

(***************************************************************************)
(*                    Properties of the folder convention                  *)
(***************************************************************************)
\* The folder directly below the base path that a returned path lies in.
TopFolder(p) == p[Len(req.base_path) + 1]

ReturnedPaths == Range(found.log_files) \cup Range(found.zip_files)

\* ipelog, ipelog2, ipelog3, ipelogger, logger or arcos2 in either case,
\* an optional underscore, then digits to the end of the name.
IsLoggerFolder(name) ==
    \E p \in Range(SerialPrefixes) :
        /\ Len(name) > Len(p)
        /\ Lower(SubSeq(name, 1, Len(p))) = p
        /\ LET rest == SubSeq(name, Len(p) + 1, Len(name))
               digits == IF Head(rest) = "_" THEN Tail(rest) ELSE rest
           IN digits # "" /\ AllDigits(digits)

\* The name, trimmed, is a trimmed identity of the request but for case.
NamesIdentity(name) ==
    \E i \in 1..Len(req.serials) : Lower(Strip(name)) = Lower(Strip(req.serials[i]))

\* C18: when some folder directly below the base path is a logger folder,
\* only logger folders are walked, a folder named as a requested identity
\* included; otherwise every folder is taken as a vehicle name.  No call
\* returns files of a logger folder and of a vehicle folder.
C18_ConventionNeverMixed ==
    Returned =>
        /\ (\E e \in Entries(tree) : IsLoggerFolder(e)) =>
              /\ \A e \in found.walked : IsLoggerFolder(e)
              /\ \A p \in ReturnedPaths : IsLoggerFolder(TopFolder(p))
        /\ ~(\E e \in Entries(tree) : IsLoggerFolder(e)) =>
              \A e \in Entries(tree) : e \in found.walked <=> NamesIdentity(e)
        /\ ~ \E p, q \in ReturnedPaths :
                IsLoggerFolder(TopFolder(p)) /\ ~IsLoggerFolder(TopFolder(q))
        /\ \A p \in ReturnedPaths : TopFolder(p) \in found.walked

\* Identity "17" names the folder 17 and is the serial of Logger17: with
\* both below the base path only the files of Logger17 are returned.
C18_Witness ==
    /\ Returned
    /\ req.serials = <<"17">>
    /\ Entries(tree) = {"17", "Logger17"}
    /\ found.walked = {"Logger17"}
    /\ found.log_files = <<<<"base", "Logger17", "b_20250102_T101010.LOG">>>>

\* C19 as stated: in the vehicle convention a folder is walked if and only
\* if its name as it stands equals a trimmed identity but for case.
C19_WalkedIffNameEquals ==
    (Returned /\ ~HasSerialFolders(tree)) =>
        \A e \in Entries(tree) :
            e \in found.walked <=>
                \E i \in 1..Len(req.serials) : Lower(e) = Lower(Strip(req.serials[i]))

\* C19: in the vehicle convention a folder is walked if and only if its
\* name, trimmed, equals a trimmed identity but for case; a name that
\* contains an identity, or is contained in one, is not walked, and the
\* files returned are those of the walked folders.
C19_WalkedIffTrimmedNameEquals ==
    (Returned /\ ~HasSerialFolders(tree)) =>
        /\ \A e \in Entries(tree) : e \in found.walked <=> NamesIdentity(e)
        /\ \A n \in tree :
              (req.base_path \o n.path) \in Range(found.log_files)
                  <=> (NamesIdentity(n.path[1]) /\ HasExtension(n.path[Len(n.path)], "LOG"))

\* VEH walked for " Veh "; VEHICLE, which contains it, and the identity
\* VE, which it contains, select nothing more.
C19_Witness ==
    /\ Returned
    /\ req.serials = <<" Veh ", "VE">>
    /\ Entries(tree) = {"VEH", "VEHICLE"}
    /\ found.walked = {"VEH"}
    /\ found.log_files = <<<<"base", "VEH", "VEH_20250101_T120000.LOG">>>>

(***************************************************************************)
(*                 Properties of the extraction of archives                *)
(***************************************************************************)
\* The archives of the current call that have been expanded so far.
Expanded == {run.zip_files[k] : k \in 1..(run.zi - 1)}

\* C20: while the scratch directory exists, every LOG entry of every intact
\* archive expanded into it so far is held by a file of the directory with
\* the entry's content, and the paths returned for the latest archive are
\* pairwise distinct.
C20_NoExtractedLogOverwritten ==
    (InCall /\ scratch.exists) =>
        /\ \A zp \in Expanded :
              content[zp].status = "ok" =>
                 \A e \in Range(LogEntries(content[zp].entries)) :
                    \E n \in DOMAIN scratch.files : scratch.files[n] = e.lines
        /\ NoDuplicates(run.extracted)

(***************************************************************************)
(*                 Properties of the escaping of the content               *)
(***************************************************************************)
\* C21: in the html_content of every block, for every dict of highlight
\* words, the empty one included, every tag is an intact span tag and the
\* text between the tags is the content with each &, < and > replaced once
\* by &amp;, &lt; and &gt;.
C21_EscapedOnceBeforeHighlighting ==
    Wrote("html") =>
        \A n \in 1..Len(out.html.html) :
            LET toks == Tokens(out.html.html[n], 1)
            IN /\ \A k \in 1..Len(toks) : toks[k].kind # "bad"
               /\ PlainText(toks) = EscapeHtml(found.filtered_lines[n][3])

\* The least and the greatest of a sequence of dates.
Span(ds) == <<Min(Range(ds)), Max(Range(ds))>>

\* C22: the window is (min, max) of the dates of the base name when it has
\* any; else (min, max) of the dates of the path's segments when they have
\* any; else the modification date for both ends; else today for both ends.
C22_WindowByPriority ==
    (scan.pc = "windowed") =>
        LET inName == DatesIn(scan.path[Len(scan.path)])
            inPath == DatesInParts(scan.path)
        IN /\ scan.window =
                 (IF inName # <<>> THEN Span(inName)
                  ELSE IF inPath # <<>> THEN Span(inPath)
                  ELSE IF scan.mtime # NoDate THEN <<scan.mtime[1], scan.mtime[1]>>
                  ELSE <<scan.today, scan.today>>)
           /\ scan.path = <<"base", "VEH", "a_20250103_T000000_20250101_T235959.LOG">>
                 => scan.window = <<20250101, 20250103>>
           /\ scan.path = <<"base", "run_20240229_T101010", "b_20250102_T000000.LOG">>
                 => scan.window = <<20250102, 20250102>>
           /\ scan.path = <<"base", "run_20240229_T101010", "2024-03-01_00_00_00", "plain.log">>
                 => scan.window = <<20240229, 20240301>>
           /\ scan.path = <<"base", "VEH", "a_20251301_T000000.LOG">>
                 => scan.window = (IF scan.mtime # NoDate THEN <<20250102, 20250102>>
                                   ELSE <<scan.today, scan.today>>)

\* A dated base name in a dated folder: the folder's date is left out.
C22_Witness ==
    /\ scan.pc = "windowed"
    /\ scan.path = <<"base", "run_20240229_T101010", "b_20250102_T000000.LOG">>
    /\ scan.mtime = <<20250102>>
    /\ scan.window = <<20250102, 20250102>>

(***************************************************************************)
(* IdentitySpec: one call of _vehicle_from_content on any file name and    *)
(* any content                                                             *)
(***************************************************************************)
IdentityFileNames ==
    {"Axlerod_20251118_T123000.LOG", "x.LOG", "my-car_20251118_T123000.LOG",
     "V1_log.LOG", "_20251118_T123000.LOG"}

\* Contents with and without each of the markers, the markers in either
\* order, and names that end at an underscore or at something else.
IdentityContents ==
    {"Configuration file: Zeta_BEV3_cfg",
     "Configuration file:Zeta_1",
     "Configuration file: C:/cfg/Axlerod_BEV3_x",
     "Configuration file: my car_BEV3",
     "Configuration file: plain",
     "Configuration file: _x Foo_BEV3",
     "Configuration file: a.cfg Configuration file: Late_1",
     "loaded Torne_BEV3 ok",
     "loaded x_Torne_BEV3",
     "Kalix_BEV3 then Configuration file: Zeta_2",
     "A_BEV3 B_BEV3",
     "Protocols: X mismatch Y",
     "_BEV3",
     ""}

IdentityInputs ==
    {[pc |-> "ready", kind |-> "identity", filename |-> f, content |-> c] :
        f \in IdentityFileNames, c \in IdentityContents}

IdentityInit ==
    /\ scan \in IdentityInputs
    /\ tree = {}
    /\ req = RequestIdle
    /\ found = NotCalled
    /\ RunIdle

\* _vehicle_from_content(filename, content)
InferVehicle ==
    /\ scan.pc = "ready" /\ scan.kind = "identity"
    /\ scan' = [pc |-> "inferred", kind |-> "identity", filename |-> scan.filename,
                content |-> scan.content,
                vehicle |-> vehicle_from_content(scan.filename, scan.content)]
    /\ UNCHANGED <<tree, req, found>>
    /\ UNCHANGED runVars

IdentityNext == InferVehicle

IdentitySpec == IdentityInit /\ [][IdentityNext]_vars

(***************************************************************************)
(*                  Properties of the inferred identity                    *)
(***************************************************************************)
NameDelimiters == {"_", "\\", "/", " ", "\t"}

\* Positions a..b of t hold no character of S (in = FALSE) or only
\* characters of S (in = TRUE).
AllIn(t, a, b, S, in) == \A k \in a..b : (Ch(t, k) \in S) = in

\* The text after the first "Configuration file:" and the blanks that
\* follow it, up to the next underscore, path separator or blank; "" when
\* there is no marker or no such text.
TextAfterMarker(t) ==
    LET marker == "Configuration file:"
        i == IndexOf(t, marker)
        hits == {<<a, b>> \in (1..Len(t)) \X (1..Len(t)) :
                    /\ i > 0 /\ a >= i + Len(marker) /\ a <= b /\ b < Len(t)
                    /\ AllIn(t, i + Len(marker), a - 1, {" ", "\t"}, TRUE)
                    /\ AllIn(t, a, b, NameDelimiters, FALSE)
                    /\ Ch(t, a) \notin {" ", "\t"}
                    /\ Ch(t, b + 1) \in NameDelimiters}
    IN IF hits = {} THEN ""
       ELSE LET h == CHOOSE x \in hits : TRUE IN SubSeq(t, h[1], h[2])

\* C23 as stated: rule (1) gives the text after "Configuration file:" up to
\* the next underscore, path separator or space whenever there is such text.
C23_FirstApplicableRule ==
    (scan.pc = "inferred") =>
        scan.vehicle =
           (IF TextAfterMarker(scan.content) # "" THEN TextAfterMarker(scan.content)
            ELSE IF Bev3Vehicle(scan.content) # "" THEN Bev3Vehicle(scan.content)
            ELSE IF FileVehicle(scan.filename) # "" THEN FileVehicle(scan.filename)
            ELSE "Unknown")

\* The names rule (1) can give: after a "Configuration file:" and the
\* blanks that follow it, text without underscore, path separator or blank
\* that ends right before an underscore; those of the leftmost such marker.
ConfigNames(t) ==
    LET marker == "Configuration file:"
        hits == {<<i, a, b>> \in (1..Len(t)) \X (1..Len(t)) \X (1..Len(t)) :
                    /\ HasAt(t, i, marker) /\ a >= i + Len(marker) /\ a <= b /\ b < Len(t)
                    /\ AllIn(t, i + Len(marker), a - 1, {" ", "\t"}, TRUE)
                    /\ AllIn(t, a, b, NameDelimiters, FALSE)
                    /\ Ch(t, b + 1) = "_"}
    IN {SubSeq(t, h[2], h[3]) : h \in {g \in hits : \A f \in hits : g[1] <= f[1]}}

\* The names rule (2) can give: letters and digits that begin at a word
\* boundary and end right before "_BEV3"; those that begin leftmost.
Bev3Names(t) ==
    LET hits == {<<a, b>> \in (1..Len(t)) \X (1..Len(t)) :
                    /\ a <= b
                    /\ AllIn(t, a, b, Alnum, TRUE)
                    /\ (a = 1 \/ ~IsWordChar(Ch(t, a - 1)))
                    /\ HasAt(t, b + 1, "_BEV3")}
    IN {SubSeq(t, h[1], h[2]) : h \in {g \in hits : \A f \in hits : g[1] <= f[1]}}

\* The names rule (3) can give: the letters and digits the file name
\* begins with, when an underscore, eight digits and "_T" follow them.
FileNames(f) ==
    {SubSeq(f, 1, b) : b \in {c \in 1..Len(f) :
        /\ AllIn(f, 1, c, Alnum, TRUE)
        /\ Len(f) >= c + 11
        /\ Ch(f, c + 1) = "_"
        /\ AllDigits(SubSeq(f, c + 2, c + 9))
        /\ SubSeq(f, c + 10, c + 11) = "_T"}}

\* C23: the identity is given by the first rule that applies: (1) the text
\* after "Configuration file:" that ends at an underscore and holds no path
\* separator or blank; (2) the letters and digits right before "_BEV3";
\* (3) the letters and digits the file name begins with before an
\* eight-digit date and "_T"; otherwise "Unknown".
C23_FirstRuleThatMatches ==
    (scan.pc = "inferred") =>
        LET c == ConfigNames(scan.content)
            b == Bev3Names(scan.content)
            f == FileNames(scan.filename)
        IN /\ c # {} => c = {scan.vehicle}
           /\ (c = {} /\ b # {}) => b = {scan.vehicle}
           /\ (c = {} /\ b = {} /\ f # {}) => f = {scan.vehicle}
           /\ (c = {} /\ b = {} /\ f = {}) => scan.vehicle = "Unknown"

\* All three rules apply and give three names: the first wins.
C23_Witness ==
    /\ scan.pc = "inferred"
    /\ scan.filename = "Axlerod_20251118_T123000.LOG"
    /\ scan.content = "Kalix_BEV3 then Configuration file: Zeta_2"
    /\ scan.vehicle = "Zeta"

(***************************************************************************)
(*                   Properties of the vehicle records                     *)
(***************************************************************************)
\* The identity of each line by itself.
RECURSIVE OwnIdentities(_)
OwnIdentities(all_lines) ==
    IF all_lines = <<>> THEN <<>>
    ELSE LET m == all_lines[Len(all_lines)]
         IN Append(OwnIdentities(SubSeq(all_lines, 1, Len(all_lines) - 1)),
                   vehicle_from_content(m[1], m[3]))

\* The name each line is attributed under: its own identity, or for an
\* "Unknown" line of a mapped file the identity of the file's last
\* "Configuration file:" line that names a vehicle.
AttributedNames(all_lines) ==
    LET own == OwnIdentities(all_lines)
        mapping(f) == {n \in 1..Len(all_lines) :
                          /\ all_lines[n][1] = f
                          /\ Contains(all_lines[n][3], "Configuration file:")
                          /\ own[n] # "Unknown"}
    IN [n \in 1..Len(all_lines) |->
           IF own[n] = "Unknown" /\ mapping(all_lines[n][1]) # {}
           THEN own[Max(mapping(all_lines[n][1]))]
           ELSE own[n]]

\* The lines attributed under a name that is key when lower-cased.
LinesOf(names, key) == {n \in DOMAIN names : Lower(names[n]) = key}

\* The lines of the summary's input attributed to the record keyed key, in
\* their order.
AttributedTo(all_lines, names, key) ==
    LET idx == LinesOf(names, key)
        nth(i) == CHOOSE n \in idx : Cardinality({m \in idx : m <= n}) = i
    IN [i \in 1..Cardinality(idx) |-> all_lines[nth(i)]]

\* The entry "CCP: EPK <suffix>" of a line.
EpkEntry(t) ==
    IF AfterFirst(t, "CCP: EPK") = "" THEN "CCP: EPK"
    ELSE "CCP: EPK " \o AfterFirst(t, "CCP: EPK")

\* The entries the lines add when each marker adds its own.
RECURSIVE EntriesOfEveryMarker(_)
EntriesOfEveryMarker(lines) ==
    IF lines = <<>> THEN <<>>
    ELSE LET t == lines[Len(lines)][3]
         IN EntriesOfEveryMarker(SubSeq(lines, 1, Len(lines) - 1))
            \o (IF Contains(t, "Protocols:") THEN <<AfterFirst(t, "Protocols:")>> ELSE <<>>)
            \o (IF Contains(t, "CCP: EPK") THEN <<EpkEntry(t)>> ELSE <<>>)

SaysMismatch(entries) ==
    \E k \in 1..Len(entries) : Contains(Lower(entries[k]), "mismatch")

\* C24 as stated: every line with "Protocols:" adds its suffix and every
\* line with "CCP: EPK" adds "CCP: EPK <suffix>", a line with both adds both;
\* the vehicle is flagged when an added entry says "mismatch" in any case.
C24_EveryMarkerAddsItsEntry ==
    Wrote("summary") =>
        LET names == AttributedNames(out.summary.all_lines)
        IN \A k \in 1..Len(Rendered) :
              LET entries == EntriesOfEveryMarker(
                                 AttributedTo(out.summary.all_lines, names, Rendered[k].key))
              IN /\ Rendered[k].protocols = entries
                 /\ Rendered[k].has_mismatch = SaysMismatch(entries)

\* The one entry of a line: that of "Protocols:" when the line has it,
\* else that of "CCP: EPK".
HasEntry(m) == Contains(m[3], "Protocols:") \/ Contains(m[3], "CCP: EPK")

EntryOf(m) ==
    IF Contains(m[3], "Protocols:") THEN AfterFirst(m[3], "Protocols:")
    ELSE EpkEntry(m[3])

\* C24: a line with "Protocols:" adds the trimmed text after the marker to
\* its vehicle's protocol list; a line with "CCP: EPK" and without
\* "Protocols:" adds "CCP: EPK <suffix>"; the vehicle's has_mismatch is true
\* exactly when an added entry says "mismatch" in any letter case, and a
\* flag set after some line is set after every later line.
C24_OneEntryPerMarkedLine ==
    Wrote("summary") =>
        LET all_lines == out.summary.all_lines
            names == AttributedNames(all_lines)
        IN /\ \A k \in 1..Len(Rendered) :
                LET marked == SelectSeq(AttributedTo(all_lines, names, Rendered[k].key),
                                        HasEntry)
                    entries == [i \in 1..Len(marked) |-> EntryOf(marked[i])]
                IN /\ Rendered[k].protocols = entries
                   /\ Rendered[k].has_mismatch = SaysMismatch(entries)
           /\ \A n \in 1..Len(all_lines) :
                LET file_to_vehicle == FileToVehicle(all_lines)
                    before == Vehicles(SubSeq(all_lines, 1, n - 1), file_to_vehicle)
                    after == AddLine(before, all_lines[n], file_to_vehicle)
                IN \A i \in 1..Len(before) :
                      before[i].has_mismatch =>
                          \E j \in 1..Len(after) :
                              after[j].key = before[i].key /\ after[j].has_mismatch

\* A vehicle flagged by its first line, in capitals, keeps the flag through a
\* line with both markers that adds one entry without the word.
C24_Witness ==
    /\ Wrote("summary")
    /\ out.summary.all_lines =
           << <<"Beta_20250102_T000000.LOG", 5, "CCP: EPK MISMATCH">>,
              <<"x.LOG", 1, "Configuration file: beta_1">>,
              <<"x.LOG", 3, "CCP: EPK mismatch Protocols: ok">> >>
    /\ Len(Rendered) = 1
    /\ Rendered[1].protocols = <<"CCP: EPK MISMATCH", "ok">>
    /\ Rendered[1].has_mismatch

\* Records are keyed by the lower-cased name, one record a key, and hold the
\* files of the lines attributed to them.
KeyedByLowerCasedIdentity(all_lines, names) ==
    /\ {Rendered[k].key : k \in 1..Len(Rendered)} = {Lower(names[n]) : n \in DOMAIN names}
    /\ \A j, k \in 1..Len(Rendered) : Rendered[j].key = Rendered[k].key => j = k
    /\ \A k \in 1..Len(Rendered) :
           Rendered[k].sources = {all_lines[n][1] : n \in LinesOf(names, Rendered[k].key)}

\* C25 as stated: the display name is the identity of the first line of the
\* record that is not "Unknown" by itself.
C25_FirstKnownLineNamesRecord ==
    Wrote("summary") =>
        LET all_lines == out.summary.all_lines
            own == OwnIdentities(all_lines)
            names == AttributedNames(all_lines)
        IN /\ KeyedByLowerCasedIdentity(all_lines, names)
           /\ \A k \in 1..Len(Rendered) :
                 LET known == {n \in LinesOf(names, Rendered[k].key) : own[n] # "Unknown"}
                 IN known # {} => Rendered[k].name_display = own[Min(known)]

\* C25: records are keyed by lower-cased identity; a record's display name
\* is the name its first line is attributed under, in its original case:
\* the line's own identity, or for an "Unknown" line of a mapped file the
\* identity the file is mapped to; such a line is attributed to the mapped
\* vehicle's record.
C25_FirstLineNamesRecord ==
    Wrote("summary") =>
        LET all_lines == out.summary.all_lines
            names == AttributedNames(all_lines)
        IN /\ KeyedByLowerCasedIdentity(all_lines, names)
           /\ \A k \in 1..Len(Rendered) :
                 Rendered[k].name_display = names[Min(LinesOf(names, Rendered[k].key))]

\* An "Unknown" line of x.LOG comes first and opens the record of the
\* vehicle the file is mapped to by a later line; a line of another file
\* that spells the name "Beta" joins it.
C25_Witness ==
    /\ Wrote("summary")
    /\ out.summary.all_lines =
           << <<"x.LOG", 2, "Protocols: ok">>,
              <<"Beta_20250102_T000000.LOG", 5, "CCP: EPK MISMATCH">>,
              <<"x.LOG", 1, "Configuration file: beta_1">> >>
    /\ Len(Rendered) = 1
    /\ Rendered[1].key = "beta"
    /\ Rendered[1].name_display = "beta"
    /\ Rendered[1].sources = {"x.LOG", "Beta_20250102_T000000.LOG"}

\* C27: all lines of one source file are attributed to one record, so each
\* source file name is in the sources of exactly one vehicle.
C27_OneRecordPerSourceFile ==
    Wrote("summary") =>
        \A n \in 1..Len(out.summary.all_lines) :
            Cardinality({k \in 1..Len(Rendered) :
                            out.summary.all_lines[n][1] \in Rendered[k].sources}) = 1

(***************************************************************************)
(*                 Properties of the dates of located files                *)
(***************************************************************************)
\* C26: every returned file has a date window that holds a date d with
\* date_from <= d <= date_to, a missing bound read as the least or greatest
\* date; a request whose date_from is later than its date_to returns no
\* files.
C26_ReturnedFilesHoldAWantedDate ==
    Returned =>
        /\ \A n \in tree :
              (req.base_path \o n.path) \in ReturnedPaths => SharesADate(n)
        /\ ~WellFormedRange => ReturnedPaths = {}

(***************************************************************************)
(* The window (logfilter_gui.py).  In GuiSpec the variable run holds the    *)
(* App object: its widgets' values, the threads it started, the callbacks   *)
(* scheduled with after(), and the files it reads and writes.               *)
(***************************************************************************)
MaxRefreshes == 3   \* refreshes of the vehicle list in one session
MaxTasks == 2       \* filtering and summary runs started in one session

\* The top-level functions of logfilter_v2 (lf).
ModuleFunctions ==
    {"_parse_date_yyyy_mm_dd", "_dates_from_filename", "_file_date_window",
     "_overlaps", "filter_log_file", "compile_keyword_patterns",
     "extract_log_files_from_zip", "find_files_by_serial_and_date",
     "highlight_text", "save_results_as_text", "save_results_as_html",
     "load_config", "create_default_config", "save_defaults",
     "_vehicle_from_content", "write_vehicle_summary_html",
     "run_summary_range", "process_selected_files", "main"}

\* What is on disk below each base path the user may enter; any other
\* path is no directory.
GuiDisk(base) ==
    IF base = "A"
    THEN {File(<<"ipelog2_17", "Miguel_20250101_T120000.LOG">>),
          File(<<"notes", "x_20250101_T120000.LOG">>)}
    ELSE IF base = "B"
    THEN {File(<<"Logger42", "readme.txt">>),
          File(<<"Logger7", "run", "Kalix_20250102_T000000.ZIP">>)}
    ELSE {}

GuiIsDir(base) == base \in {"A", "B"}

NoMapping == [l \in {} |-> ""]

\* sorted(set(display_items))
RECURSIVE SortedSet(_)
SortedSet(S) ==
    IF S = {} THEN <<>>
    ELSE LET least == CHOOSE x \in S : \A y \in S : y = x \/ StrLess(x, y)
         IN <<least>> \o SortedSet(S \ {least})

\* The labels a logger folder may get: the name before the first underscore
\* of the newest LOG or ZIP file below it (the first met, of those with the
\* latest date), with the serial number; the serial number alone when there
\* is no such name.
LabelsOf(base, e) ==
    LET sn == serial_folder_sn(e)
        files == {n \in WalkFiles(GuiDisk(base), <<e>>) :
                     \/ HasExtension(n.path[Len(n.path)], "LOG")
                     \/ HasExtension(n.path[Len(n.path)], "ZIP")}
        file_date(n) == file_date_window(<<base>> \o n.path, n.mtime, RequestIdle.today)[2]
        newest == {n \in files : \A m \in files : file_date(m) <= file_date(n)}
        veh(n) == LET fname == n.path[Len(n.path)]
                      i == IndexOf(fname, "_")
                  IN IF i > 1 THEN SubSeq(fname, 1, i - 1) ELSE ""
    IN IF files = {} THEN {sn}
       ELSE {IF veh(n) # "" THEN veh(n) \o " (" \o sn \o ")" ELSE sn : n \in newest}

\* _update_serial_list(base): the results it may return, one for each order
\* in which the folders and files are met.
update_serial_list(base) ==
    IF base = "" \/ ~GuiIsDir(base) THEN {[items |-> <<>>, mapping |-> NoMapping]}
    ELSE LET folders == {e \in Entries(GuiDisk(base)) : serial_folder_sn(e) # ""}
             labellings == {lab \in [folders -> UNION {LabelsOf(base, e) : e \in folders}] :
                               \A e \in folders : lab[e] \in LabelsOf(base, e)}
         IN UNION {
              {[items |-> SortedSet({lab[e] : e \in folders}), mapping |-> mp] :
                  mp \in {f \in [{lab[e] : e \in folders} -> {serial_folder_sn(e) : e \in folders}] :
                             \A l \in DOMAIN f :
                                \E e \in folders : lab[e] = l /\ f[l] = serial_folder_sn(e)}} :
              lab \in labellings}

NoCache == [exists |-> FALSE, base |-> "", items |-> <<>>, mapping |-> NoMapping]

\* _load_serial_cache(base)
load_serial_cache(cache, base) ==
    IF ~cache.exists \/ cache.base # base
    THEN [items |-> <<>>, mapping |-> NoMapping]
    ELSE [items |-> cache.items,
          mapping |-> [k \in Range(cache.items) |->
                          IF k \in DOMAIN cache.mapping THEN cache.mapping[k] ELSE k]]

\* _save_serial_cache(base, items, mapping)
save_serial_cache(base, items, mapping) ==
    [exists |-> TRUE, base |-> base, items |-> items, mapping |-> mapping]

NewThread(kind, base, prefix) ==
    [kind |-> kind, pc |-> "start", base |-> base, prefix |-> prefix,
     items |-> <<>>, mapping |-> NoMapping, outcome |-> "none"]

\* _set_busy(busy)
set_busy(app, busy) ==
    IF busy THEN [app EXCEPT !.var_status = "Working...", !.btn_run = "disabled"]
    ELSE [app EXCEPT !.var_status = "Done.", !.btn_run = "normal"]

\* apply_to_gui(display_items, mapping, status_text)
apply_to_gui(app, call) ==
    [app EXCEPT !.serial_display_to_sn = call.mapping,
                !.cbo_serials = call.items,
                !.var_serial_choice = IF call.items # <<>> THEN call.items[1] ELSE "",
                !.var_status = call.status]

\* _refresh_serials_async()
refresh_serials_async(app) ==
    LET base == Strip(app.var_base)
        cached == load_serial_cache(app.cache, base)
        shown == IF cached.items # <<>>
                 THEN [app EXCEPT !.after = Append(@,
                          [items |-> cached.items, mapping |-> cached.mapping,
                           status |-> "Vehicle list (cached)... updating in background."])]
                 ELSE [app EXCEPT !.var_status = "Loading vehicle list..."]
    IN [shown EXCEPT !.threads = Append(@, NewThread("refresh", base, ""))]

\* The prefix of _collect_inputs.
CollectedPrefix(app) ==
    IF Strip(app.var_prefix) = "" THEN "filtered_log_results" ELSE Strip(app.var_prefix)

\* The App when its widgets are built, before _load_defaults.
BuiltApp(cache) ==
    [kind |-> "gui", pc |-> "mainloop",
     var_base |-> "", var_prefix |-> "", txt_serials |-> <<>>,
     var_status |-> "", btn_run |-> "normal",
     cbo_serials |-> <<>>, var_serial_choice |-> "", serial_display_to_sn |-> NoMapping,
     threads |-> <<>>, after |-> <<>>,
     cache |-> cache, files |-> {}, dialog |-> "", opened |-> ""]

GuiDefaults ==
    {[base_path |-> b, serials |-> q, output_prefix |-> "p"] :
        b \in {"", "A"}, q \in {<<>>, <<"17">>}}

\* _load_defaults()
load_defaults(app, defaults) ==
    refresh_serials_async([app EXCEPT !.var_base = defaults.base_path,
                                      !.txt_serials = defaults.serials,
                                      !.var_prefix = defaults.output_prefix])

\* The cache file a session may find: none, or that of an earlier session.
GuiCaches ==
    {NoCache} \cup {save_serial_cache("A", r.items, r.mapping) : r \in update_serial_list("A")}

\* App.__init__: the widgets built and the defaults loaded.
GuiInit ==
    /\ \E cache \in GuiCaches, defaults \in GuiDefaults :
          /\ run = load_defaults(BuiltApp(cache), defaults)
          /\ req = [RequestIdle EXCEPT !.serials = defaults.serials]
    /\ tree = {}
    /\ found = NotCalled
    /\ scan = ScanIdle
    /\ content = NoFiles
    /\ scratch = NoScratch
    /\ out = NoOutputFiles
    /\ nruns = 0

GuiUnchanged == UNCHANGED <<tree, req, found, scan, content, scratch, out, nruns>>

Started(kinds) == {i \in 1..Len(run.threads) : run.threads[i].kind \in kinds}

CanRefresh == Cardinality(Started({"refresh"})) < MaxRefreshes

CanStartTask == Cardinality(Started({"filter", "summary"})) < MaxTasks

\* The user types in the base path field.
TypeBase ==
    /\ \E b \in {"", "A", " B"} : b # run.var_base /\ run' = [run EXCEPT !.var_base = b]
    /\ GuiUnchanged

\* The user types in the serial number box.
TypeSerials ==
    /\ \E q \in {<<>>, <<"17">>} : q # run.txt_serials /\ run' = [run EXCEPT !.txt_serials = q]
    /\ GuiUnchanged

\* _browse_base()
BrowseBase ==
    /\ CanRefresh
    /\ \E path \in {"A", "B"} :
          run' = refresh_serials_async([run EXCEPT !.var_base = path])
    /\ GuiUnchanged

\* The refresh button: _refresh_serials_async()
RefreshClicked ==
    /\ CanRefresh
    /\ run' = refresh_serials_async(run)
    /\ GuiUnchanged

\* "Reset to defaults": _load_defaults()
LoadDefaults ==
    /\ CanRefresh
    /\ run' = load_defaults(run, [base_path |-> "A", serials |-> req.serials,
                                  output_prefix |-> "p"])
    /\ GuiUnchanged

\* worker() of _refresh_serials_async, to the cache being saved
RefreshScan ==
    /\ \E i \in 1..Len(run.threads) :
          /\ run.threads[i].kind = "refresh" /\ run.threads[i].pc = "start"
          /\ \E r \in update_serial_list(run.threads[i].base) :
                run' = [run EXCEPT
                          !.threads[i].items = r.items,
                          !.threads[i].mapping = r.mapping,
                          !.threads[i].pc = "saved",
                          !.cache = save_serial_cache(run.threads[i].base, r.items, r.mapping)]
    /\ GuiUnchanged

\* worker() of _refresh_serials_async: self.after(0, apply)
RefreshSchedule ==
    /\ \E i \in 1..Len(run.threads) :
          /\ run.threads[i].kind = "refresh" /\ run.threads[i].pc = "saved"
          /\ run' = [run EXCEPT
                       !.threads[i].pc = "finished",
                       !.after = Append(@, [items |-> run.threads[i].items,
                                            mapping |-> run.threads[i].mapping,
                                            status |-> "Vehicle list loaded."])]
    /\ GuiUnchanged

\* The main loop runs the callback scheduled first.
RunAfter ==
    /\ run.after # <<>>
    /\ run' = [apply_to_gui(run, Head(run.after)) EXCEPT !.after = Tail(run.after)]
    /\ GuiUnchanged

\* The checks and the thread start that _on_run and _on_run_daily_summary
\* share.
StartRun(app, kind) ==
    IF Strip(app.var_base) = ""
    THEN [app EXCEPT !.dialog = "Enter base path (UNC or local folder)."]
    ELSE IF app.txt_serials = <<>>
    THEN [app EXCEPT !.dialog = "Enter at least one serial number."]
    ELSE [set_busy(app, TRUE) EXCEPT
             !.threads = Append(@, NewThread(kind, Strip(app.var_base), CollectedPrefix(app)))]

\* _on_run(), the command of btn_run
OnRun ==
    /\ run.btn_run = "normal"
    /\ CanStartTask
    /\ run' = StartRun(run, "filter")
    /\ GuiUnchanged

\* _on_run_daily_summary(), the command of the "Run summary" button
OnRunDailySummary ==
    /\ CanStartTask
    /\ run' = StartRun(run, "summary")
    /\ GuiUnchanged

\* _run_task and _run_daily_task enter redirect_stdout and redirect_stderr.
TaskEnter ==
    /\ \E i \in 1..Len(run.threads) :
          /\ run.threads[i].kind \in {"filter", "summary"} /\ run.threads[i].pc = "start"
          /\ run' = [run EXCEPT !.threads[i].pc = "redirected"]
    /\ GuiUnchanged

\* _notify(text)
notify(app, text) == [app EXCEPT !.var_status = text, !.dialog = text]

\* _run_task from the search to the end: no file located, lines saved, no
\* line matched, or an exception; then finally: _set_busy(False).
RunTaskFinish ==
    /\ \E i \in 1..Len(run.threads) :
          /\ run.threads[i].kind = "filter" /\ run.threads[i].pc = "redirected"
          /\ \E outcome \in {"no_files", "done", "no_hits", "error"} :
                LET text == IF outcome = "no_files"
                            THEN "No files matched your criteria (serial number/date)."
                            ELSE IF outcome = "done" THEN "Done!"
                            ELSE IF outcome = "no_hits" THEN "No hits found."
                            ELSE "Error: "
                    written == IF outcome = "done"
                               THEN {run.threads[i].prefix \o ".txt",
                                     run.threads[i].prefix \o ".html"}
                               ELSE {}
                IN run' = [set_busy(notify(run, text), FALSE) EXCEPT
                             !.threads[i].pc = "finished",
                             !.threads[i].outcome = outcome,
                             !.files = @ \cup written]
    /\ GuiUnchanged

\* _run_daily_task from lf.run_daily_summary(...) to the end.  The module
\* defines no run_daily_summary, so the call raises AttributeError, which
\* the except clause reports; then finally: _set_busy(False).
DailyTaskFinish ==
    /\ \E i \in 1..Len(run.threads) :
          /\ run.threads[i].kind = "summary" /\ run.threads[i].pc = "redirected"
          /\ LET defined == "run_daily_summary" \in ModuleFunctions
                 text == IF defined THEN "summary completed." ELSE "Error: "
             IN run' = [set_busy(notify(run, text), FALSE) EXCEPT
                          !.threads[i].pc = "finished",
                          !.threads[i].outcome = IF defined THEN "completed" ELSE "error"]
    /\ GuiUnchanged

\* _open_daily_summary_html()
OpenDailySummaryHtml ==
    /\ LET path == CollectedPrefix(run) \o "_daily_summary.html"
       IN IF path \notin run.files
          THEN /\ run.dialog # "Run summary first to create the summary HTML file."
               /\ run' = [run EXCEPT
                            !.dialog = "Run summary first to create the summary HTML file."]
          ELSE /\ run.opened # path
               /\ run' = [run EXCEPT !.opened = path]
    /\ GuiUnchanged

\* The vehicle list: the base path edited and the list refreshed.
ListNext ==
    \/ TypeBase \/ BrowseBase \/ RefreshClicked \/ LoadDefaults
    \/ RefreshScan \/ RefreshSchedule \/ RunAfter

ListSpec == GuiInit /\ [][ListNext]_vars

\* The runs: the inputs edited, runs started and their reports opened.
GuiNext ==
    \/ TypeBase \/ TypeSerials
    \/ OnRun \/ OnRunDailySummary \/ TaskEnter \/ RunTaskFinish \/ DailyTaskFinish
    \/ OpenDailySummaryHtml

GuiSpec == GuiInit /\ [][GuiNext]_vars

\* The threads the window started are scheduled.
GuiFairSpec ==
    /\ GuiSpec
    /\ WF_vars(TaskEnter) /\ WF_vars(RunTaskFinish) /\ WF_vars(DailyTaskFinish)

(***************************************************************************)
(*                       Properties of the window                          *)
(***************************************************************************)
SummaryRuns == Started({"summary"})

SummaryPath(prefix) == prefix \o "_daily_summary.html"

\* A summary run has written its report, and it is the file that "Open
\* Summary report" opens.
SummaryReportWritten ==
    \E i \in SummaryRuns :
        /\ run.threads[i].pc = "finished"
        /\ run.threads[i].outcome = "completed"
        /\ SummaryPath(run.threads[i].prefix) \in run.files
        /\ SummaryPath(run.threads[i].prefix) = SummaryPath(CollectedPrefix(run))

\* C28: a "Run summary" started with a base path and identities eventually
\* completes by writing the summary report, the file "Open Summary report"
\* opens, and no summary run ends in the error outcome.
C28_SummaryRunWritesReport ==
    /\ (SummaryRuns # {}) ~> SummaryReportWritten
    /\ [](\A i \in SummaryRuns : run.threads[i].outcome # "error")

\* The filtering and summary runs whose worker has not finished.
InProgress == {i \in Started({"filter", "summary"}) : run.threads[i].pc # "finished"}

\* C29: at most one filtering or summary run is in progress at any time,
\* so no two runs have the output stream redirected at once.
C29_AtMostOneRunInProgress ==
    /\ Cardinality(InProgress) <= 1
    /\ Cardinality({i \in InProgress : run.threads[i].pc = "redirected"}) <= 1

\* Every refresh has finished and every scheduled update of the list has
\* run.
RefreshesFinished ==
    /\ \A i \in Started({"refresh"}) : run.threads[i].pc = "finished"
    /\ run.after = <<>>

\* The base path of the refresh requested last.
LastRequested == run.threads[Max(Started({"refresh"}))].base

\* C30: when all refreshes have finished, the dropdown, its mapping and the
\* saved cache are those of the base path of the refresh requested last.
C30_ListOfLastRequestedBase ==
    RefreshesFinished =>
        \E r \in update_serial_list(LastRequested) :
            /\ run.cbo_serials = r.items
            /\ run.serial_display_to_sn = r.mapping
            /\ run.cache = save_serial_cache(LastRequested, r.items, r.mapping)

=============================================================================
